---- MODULE Spec2Model ----
(***************************************************************************)
(* Alarm control loop of icinga-lighthouse (src/trelaylaatern.ino).        *)
(*                                                                         *)
(* The file holds two sketches: the primary sketch (lines 1-657, with the  *)
(* manual relay test and two monitored endpoints) and the fail-safe        *)
(* indicator variant (lines 658-1220, one endpoint, relay 4 as failure     *)
(* indicator).  The variable sketch says which of the two is running.      *)
(*                                                                         *)
(* One loop() iteration is the sequence of steps                           *)
(*    idle -> web -> gate -> (svc -> (host)) -> wd -> relay -> idle        *)
(* held in pc.  Time (millis) advances between iterations (idle -> web)    *)
(* and while a query blocks.                                               *)
(***************************************************************************)
EXTENDS Integers, Sequences, FiniteSets, TLC

\* ---------------------------------------------------------------- bounds
\* granularity at which the clock is observed, in ms
Quantum == 30000
\* number of quanta of uptime that are explored
MaxTicks == 5
\* number of poll intervals of uptime explored by the escalation timeline
TimelineTicks == 72
\* the runs that never end observe the clock every 2^TickBits ms
TickBits == 26
\* loop() iterations observed around the wrap-around of millis()
RolloverTicks == 5

\* ------------------------------------------------------ program constants
RELAY_ON == 1
RELAY_OFF == 0
HTTP_CODE_OK == 200
\* setup() waits delay(1000) before anything else
BootMillis == 1000
\* expiry of the manual override, loop()
ManualTimeout == 60000
\* reconnect recheck interval, ensureWiFiConnection()
WifiRecheck == 5000
\* watchdog_timeout_ms as initialised (the primary sketch never reloads it)
DefaultWatchdog == 60000
\* poll_interval_ms as initialised
DefaultPoll == 5000

\* unsigned long arithmetic wraps around; the model keeps a 30 bit clock
\* because TLC's integers are 32 bit signed
ULongMod == 2^30

Elapsed_signed(now, then) == IF now >= then THEN now - then ELSE 0

\* now - then in unsigned arithmetic
Elapsed(now, then) == (now - then + ULongMod) % ULongMod

STATE_IDLE == "STATE_IDLE"
STATE_INITIAL_ALARM == "STATE_INITIAL_ALARM"
STATE_COOLDOWN == "STATE_COOLDOWN"
STATE_REMINDER_ALARM == "STATE_REMINDER_ALARM"
AlarmState == {STATE_IDLE, STATE_INITIAL_ALARM, STATE_COOLDOWN, STATE_REMINDER_ALARM}

Relays == 1..4

\* default URL of the host endpoint and the values a user may have saved
DefaultHostUrl == "https://192.168.1.100:5665/v1/objects/hosts?filter=host.state!=0"
\* a host URL saved from the settings form that is too short to be one
ShortHostUrl == "-"
HostUrls == {DefaultHostUrl, ShortHostUrl, ""}
DefaultSvcUrl == "https://192.168.1.100:5665/v1/objects/services?filter=service.state==2"

\* timing settings found in the preferences at boot: the defaults, and
\* two sets a user has saved
TimingConfigs ==
  { [init |-> 30000, rint |-> 300000, rdur |-> 15000],
    [init |-> 30000, rint |-> 30000,  rdur |-> 90000],
    [init |-> 30000, rint |-> 0,      rdur |-> 30000] }

\* the compiled-in timing defaults
DefaultTimings == [init |-> 30000, rint |-> 300000, rdur |-> 15000]

\* watchdog timeouts the fail-safe variant finds in the preferences
WatchdogConfigs == {DefaultWatchdog, 30000}

\* what the backend may answer to one query
NoQuery == [begin |-> TRUE, code |-> 0, body |-> "none"]
Outcomes ==
  { [begin |-> FALSE, code |-> 0,   body |-> "none"],
    [begin |-> TRUE,  code |-> -11, body |-> "none"],
    [begin |-> TRUE,  code |-> 503, body |-> "none"],
    [begin |-> TRUE,  code |-> 200, body |-> "results"],
    [begin |-> TRUE,  code |-> 200, body |-> "empty"],
    [begin |-> TRUE,  code |-> 200, body |-> "malformed"] }
\* time one query may block (connect, TLS handshake, HTTP timeout), as seen
\* on the quantised clock
QueryDurations == {0, Quantum}

\* no POST /save is pending
NoSave == [poll |-> 0, init |-> 0, rint |-> 0, rdur |-> 0, wd |-> 0,
           pending |-> FALSE]

\* the HTTP server thread of the simulator is not inside handleToggle()
NoToggle == [at |-> "none", r |-> 0, state |-> 0]

\* arguments of /toggle?r= : end of test, siren, a spare relay, no relay
ToggleArgs == {0, 1, 2, 5}

VARIABLES
  sketch,                    \* "primary" or "failsafe"
  clock,                     \* millis()
  wifi_status,               \* WiFi.status() == WL_CONNECTED
  link_down_for,             \* for how long the station link has been
                             \* down, up to just past the recheck interval
  save_args,                 \* toInt() of the timing fields of a pending
                             \* POST /save, or NoSave
  toggle,                    \* simulator: where the HTTP server thread is
                             \* inside handleToggle(), or NoToggle
  wifi_connected_mode,
  icinga_url_host,
  poll_interval_ms, init_alarm_duration_ms, reminder_interval_ms,
  reminder_duration_ms, watchdog_timeout_ms,
  last_poll_time, last_successful_data_time, last_wifi_check_time,
  last_manual_action_time, manual_override_active,
  last_connection_status, icinga_reachable,
  is_alarm_active, is_network_error,
  current_state, state_start_time,
  pin,                       \* level of the four relay pins
  http,                      \* outcome of the query just made (a local
                             \* of the poll, gone once the poll is over)
  pc                         \* position inside loop()

config == <<sketch, wifi_connected_mode, icinga_url_host, poll_interval_ms,
            init_alarm_duration_ms, reminder_interval_ms,
            reminder_duration_ms, watchdog_timeout_ms>>
vars == <<config, save_args, toggle, clock, wifi_status, link_down_for,
          last_poll_time,
          last_successful_data_time, last_wifi_check_time,
          last_manual_action_time, manual_override_active,
          last_connection_status, icinga_reachable, is_alarm_active,
          is_network_error, current_state, state_start_time, pin, http, pc>>

\* ------------------------------------------------------------------ boot
\* globals as initialised, then setup(): relays off, settings loaded,
\* setupWiFi() decides the mode, last_successful_data_time = millis()
Init ==
  /\ sketch \in {"primary", "failsafe"}
  /\ clock = BootMillis
  /\ wifi_connected_mode \in BOOLEAN
  /\ wifi_status = wifi_connected_mode
  /\ link_down_for = 0
  /\ save_args = NoSave
  /\ toggle = NoToggle
  /\ icinga_url_host \in (IF sketch = "primary" THEN HostUrls ELSE {""})
  /\ poll_interval_ms = DefaultPoll
  /\ \E t \in TimingConfigs :
       /\ init_alarm_duration_ms = t.init
       /\ reminder_interval_ms = t.rint
       /\ reminder_duration_ms = t.rdur
  /\ watchdog_timeout_ms \in
       (IF sketch = "primary" THEN {DefaultWatchdog} ELSE WatchdogConfigs)
  /\ last_poll_time = 0
  /\ last_successful_data_time = clock
  /\ last_wifi_check_time = 0
  /\ last_manual_action_time = 0
  /\ manual_override_active = FALSE
  /\ last_connection_status \in
       (IF wifi_connected_mode THEN {"WiFi Connected"}
        ELSE IF sketch = "primary" THEN {"STARTUP", "WiFi Fail"}
        ELSE {"STARTUP", "WiFi Failed -> AP Mode"})
  /\ icinga_reachable = FALSE
  /\ is_alarm_active = FALSE
  /\ is_network_error = FALSE
  /\ current_state = STATE_IDLE
  /\ state_start_time = 0
  /\ pin = [r \in Relays |-> RELAY_OFF]
  /\ http = NoQuery
  /\ pc = "idle"


\* ------------------------------------------------------------ environment
\* uptime still to be explored
CanAdvance(d) ==
  IF d = 0 THEN TRUE ELSE clock + d <= BootMillis + MaxTicks * Quantum

\* link_down_for after d more milliseconds
linkDownAfter(d) ==
  IF wifi_connected_mode /\ ~wifi_status
    THEN IF link_down_for + d > WifiRecheck
           THEN WifiRecheck + 1 ELSE link_down_for + d
    ELSE 0

\* time passes between two loop() iterations
Tick ==
  /\ pc = "idle"
  /\ CanAdvance(Quantum)
  /\ clock' = (clock + Quantum) % ULongMod
  /\ link_down_for' = linkDownAfter(Quantum)
  /\ pc' = "web"
  /\ UNCHANGED <<config, save_args, toggle, wifi_status, last_poll_time,
                 last_successful_data_time, last_wifi_check_time,
                 last_manual_action_time, manual_override_active,
                 last_connection_status, icinga_reachable, is_alarm_active,
                 is_network_error, current_state, state_start_time, pin,
                 http>>

\* the station link drops or comes back
LinkChange ==
  /\ pc = "idle"
  /\ wifi_connected_mode
  /\ wifi_status' = ~wifi_status
  /\ link_down_for' = 0
  /\ UNCHANGED <<config, save_args, toggle, clock, last_poll_time,
                 last_successful_data_time, last_wifi_check_time,
                 last_manual_action_time, manual_override_active,
                 last_connection_status, icinga_reachable, is_alarm_active,
                 is_network_error, current_state, state_start_time, pin,
                 http, pc>>

\* ------------------------------------------------------ primary: handlers
gpioWrite_always(p, r, val) == TRUE

\* digitalWrite(): whether the call reaches the pin and the log
gpioWrite(p, r, val) == p[r] # val

\* the pin levels after digitalWrite(r, val)
digitalWrite(p, r, val) ==
  IF gpioWrite(p, r, val) THEN [p EXCEPT ![r] = val] ELSE p

RECURSIVE gpioApply(_, _)
\* the pin levels after a sequence of digitalWrite() calls <<relay, level>>
gpioApply(p, calls) ==
  IF calls = <<>> THEN p
  ELSE gpioApply(digitalWrite(p, Head(calls)[1], Head(calls)[2]),
                 Tail(calls))

RECURSIVE gpioWrites(_, _)
\* the calls of the sequence that reach the pin and the log
gpioWrites(p, calls) ==
  IF calls = <<>> THEN <<>>
  ELSE (IF gpioWrite(p, Head(calls)[1], Head(calls)[2])
          THEN <<Head(calls)>> ELSE <<>>)
       \o gpioWrites(digitalWrite(p, Head(calls)[1], Head(calls)[2]),
                     Tail(calls))

\* server.handleClient() with no request pending (or one that fails
\* authentication)
handleClient ==
  /\ pc \in {"idle", "web"}
  /\ pc' = "gate"
  /\ UNCHANGED <<config, save_args, toggle, clock, wifi_status, link_down_for, last_poll_time,
                 last_successful_data_time, last_wifi_check_time,
                 last_manual_action_time, manual_override_active,
                 last_connection_status, icinga_reachable, is_alarm_active,
                 is_network_error, current_state, state_start_time, pin,
                 http>>

\* server.handleClient() serving an authenticated /toggle?r=<r>
handleToggle(r) ==
  /\ pc \in {"idle", "web"}
  /\ sketch = "primary"
  /\ pc' = "gate"
  /\ IF r = 0
       THEN /\ manual_override_active' = FALSE
            /\ UNCHANGED <<last_manual_action_time, pin>>
       ELSE /\ manual_override_active' = TRUE
            /\ last_manual_action_time' = clock
            /\ pin' = IF r \in Relays
                        THEN digitalWrite(pin, r, 1 - pin[r])
                        ELSE pin
  /\ UNCHANGED <<config, save_args, toggle, clock, wifi_status, link_down_for, last_poll_time,
                 last_successful_data_time, last_wifi_check_time,
                 last_connection_status, icinga_reachable, is_alarm_active,
                 is_network_error, current_state, state_start_time, http>>

\* ------------------------------------- simulator: the HTTP server thread
\* The simulator's WebServer serves requests on its own thread while loop()
\* runs on the main thread; handleToggle() is followed one access to the
\* shared globals at a time.
\* the server thread dispatches an authenticated /toggle?r=<r>
simDispatch(r) ==
  /\ sketch = "primary"
  /\ toggle.at = "none"
  /\ toggle' = [at |-> IF r = 0 THEN "clear" ELSE "override",
                r |-> r, state |-> 0]
  /\ UNCHANGED <<config, save_args, clock, wifi_status, link_down_for,
                 last_poll_time, last_successful_data_time,
                 last_wifi_check_time, last_manual_action_time,
                 manual_override_active, last_connection_status,
                 icinga_reachable, is_alarm_active, is_network_error,
                 current_state, state_start_time, pin, http, pc>>

\* handleToggle(), r = 0: manual_override_active = false
simClearOverride ==
  /\ toggle.at = "clear"
  /\ manual_override_active' = FALSE
  /\ toggle' = NoToggle
  /\ UNCHANGED <<config, save_args, clock, wifi_status, link_down_for,
                 last_poll_time, last_successful_data_time,
                 last_wifi_check_time, last_manual_action_time,
                 last_connection_status, icinga_reachable, is_alarm_active,
                 is_network_error, current_state, state_start_time, pin,
                 http, pc>>

\* handleToggle(): manual_override_active = true
simSetOverride ==
  /\ toggle.at = "override"
  /\ manual_override_active' = TRUE
  /\ toggle' = [toggle EXCEPT !.at = "stamp"]
  /\ UNCHANGED <<config, save_args, clock, wifi_status, link_down_for,
                 last_poll_time, last_successful_data_time,
                 last_wifi_check_time, last_manual_action_time,
                 last_connection_status, icinga_reachable, is_alarm_active,
                 is_network_error, current_state, state_start_time, pin,
                 http, pc>>

\* handleToggle(): last_manual_action_time = millis()
simStamp ==
  /\ toggle.at = "stamp"
  /\ last_manual_action_time' = clock
  /\ toggle' = IF toggle.r \in Relays
                 THEN [toggle EXCEPT !.at = "read"] ELSE NoToggle
  /\ UNCHANGED <<config, save_args, clock, wifi_status, link_down_for,
                 last_poll_time, last_successful_data_time,
                 last_wifi_check_time, manual_override_active,
                 last_connection_status, icinga_reachable, is_alarm_active,
                 is_network_error, current_state, state_start_time, pin,
                 http, pc>>

\* handleToggle(): int state = digitalRead(pin)
simRead ==
  /\ toggle.at = "read"
  /\ toggle' = [toggle EXCEPT !.at = "write", !.state = pin[toggle.r]]
  /\ UNCHANGED <<config, save_args, clock, wifi_status, link_down_for,
                 last_poll_time, last_successful_data_time,
                 last_wifi_check_time, last_manual_action_time,
                 manual_override_active, last_connection_status,
                 icinga_reachable, is_alarm_active, is_network_error,
                 current_state, state_start_time, pin, http, pc>>

\* handleToggle(): digitalWrite(pin, !state)
simWrite ==
  /\ toggle.at = "write"
  /\ pin' = digitalWrite(pin, toggle.r, 1 - toggle.state)
  /\ toggle' = NoToggle
  /\ UNCHANGED <<config, save_args, clock, wifi_status, link_down_for,
                 last_poll_time, last_successful_data_time,
                 last_wifi_check_time, last_manual_action_time,
                 manual_override_active, last_connection_status,
                 icinga_reachable, is_alarm_active, is_network_error,
                 current_state, state_start_time, http, pc>>

\* ------------------------------------------------------- saving settings
\* a * b in unsigned long arithmetic
RECURSIVE MulMod(_, _)
MulMod(a, b) ==
  IF b = 0 THEN 0
  ELSE LET h == MulMod(a, b \div 2)
       IN  (((2 * h) % ULongMod) + (IF b % 2 = 1 THEN a ELSE 0)) % ULongMod

\* the long returned by toInt(), stored in an unsigned long
toULong(v) == IF v < 0 THEN v + ULongMod ELSE v % ULongMod

\* values of the timing fields a browser may submit
SaveValues == {-1, 0, 1, 5, 30, 1500, (ULongMod \div 1000) + 1}
SaveArgs ==
  [poll : SaveValues, init : {-1, 0, 30},
   rint : {0, 5, (ULongMod \div 60000) + 1},
   rdur : {15}, wd : {0, 60000}, pending : {TRUE}]

\* a POST /save reaches the web server
postSave(a) ==
  /\ pc = "idle"
  /\ ~save_args.pending
  /\ save_args' = a
  /\ UNCHANGED <<config, toggle, clock, wifi_status, link_down_for, last_poll_time,
                 last_successful_data_time, last_wifi_check_time,
                 last_manual_action_time, manual_override_active,
                 last_connection_status, icinga_reachable, is_alarm_active,
                 is_network_error, current_state, state_start_time, pin,
                 http, pc>>

\* ESP.restart(), then the globals as initialised and setup() with
\* loadSettings() reading the timings t and the watchdog timeout w
restartWith(t, w) ==
  /\ UNCHANGED <<sketch, wifi_connected_mode, icinga_url_host>>
  /\ poll_interval_ms' = t.poll
  /\ init_alarm_duration_ms' = t.init
  /\ reminder_interval_ms' = t.rint
  /\ reminder_duration_ms' = t.rdur
  /\ watchdog_timeout_ms' = w
  /\ save_args' = NoSave
  /\ toggle' = NoToggle
  /\ clock' = BootMillis
  /\ wifi_status' = wifi_connected_mode
  /\ link_down_for' = 0
  /\ last_poll_time' = 0
  /\ last_successful_data_time' = BootMillis
  /\ last_wifi_check_time' = 0
  /\ last_manual_action_time' = 0
  /\ manual_override_active' = FALSE
  /\ last_connection_status' \in
       (IF wifi_connected_mode THEN {"WiFi Connected"}
        ELSE IF sketch = "primary" THEN {"STARTUP", "WiFi Fail"}
        ELSE {"STARTUP", "WiFi Failed -> AP Mode"})
  /\ icinga_reachable' = FALSE
  /\ is_alarm_active' = FALSE
  /\ is_network_error' = FALSE
  /\ current_state' = STATE_IDLE
  /\ state_start_time' = 0
  /\ pin' = [r \in Relays |-> RELAY_OFF]
  /\ http' = NoQuery
  /\ pc' = "idle"

\* handleSave(): the poll interval put into the preferences
savedPoll(v) ==
  LET p_sec == toULong(v)
  IN  MulMod(IF p_sec < 1 THEN 1 ELSE p_sec, 1000)

savedTimings_rintSeconds(a) ==
  [poll |-> savedPoll(a.poll),
   init |-> MulMod(toULong(a.init), 1000),
   rint |-> MulMod(toULong(a.rint), 1000),
   rdur |-> MulMod(toULong(a.rdur), 1000)]

\* handleSave(): the timings put into the preferences
savedTimings(a) ==
  [poll |-> savedPoll(a.poll),
   init |-> MulMod(toULong(a.init), 1000),
   rint |-> MulMod(MulMod(toULong(a.rint), 60), 1000),
   rdur |-> MulMod(toULong(a.rdur), 1000)]

\* handleRoot(): the timing fields of the configuration page
shownTimings ==
  [poll |-> poll_interval_ms \div 1000,
   init |-> init_alarm_duration_ms \div 1000,
   rint |-> reminder_interval_ms \div 60000,
   rdur |-> reminder_duration_ms \div 1000,
   wd |-> 0, pending |-> TRUE]

\* server.handleClient() serving an authenticated POST /save
handleSave ==
  /\ pc = "idle"
  /\ sketch = "primary"
  /\ save_args.pending
  /\ restartWith(savedTimings(save_args), watchdog_timeout_ms)

\* variant handleSave(): the poll interval put into the preferences
savedPollV(v) ==
  LET new_poll == toULong(v) IN IF new_poll < 1000 THEN 1000 ELSE new_poll

\* variant handleSave(): the timings put into the preferences
savedTimingsV(a) ==
  [poll |-> savedPollV(a.poll),
   init |-> toULong(a.init),
   rint |-> toULong(a.rint),
   rdur |-> toULong(a.rdur)]

\* variant handleRoot(): the timing fields of the configuration page
shownTimingsV ==
  [poll |-> poll_interval_ms, init |-> init_alarm_duration_ms,
   rint |-> reminder_interval_ms, rdur |-> reminder_duration_ms,
   wd |-> watchdog_timeout_ms, pending |-> TRUE]

\* variant: server.handleClient() serving an authenticated POST /save
handleSaveV ==
  /\ pc = "idle"
  /\ sketch = "failsafe"
  /\ save_args.pending
  /\ restartWith(savedTimingsV(save_args), toULong(save_args.wd))

\* ----------------------------------------------------- primary: loop head
\* last_wifi_check_time after ensureWiFiConnection()
ensureWiFiConnection(now) ==
  IF ~wifi_connected_mode THEN last_wifi_check_time
  ELSE IF Elapsed(now, last_wifi_check_time) > WifiRecheck THEN now
  ELSE last_wifi_check_time

wifiReconnect_everyTick(now) == wifi_connected_mode /\ ~wifi_status

\* ensureWiFiConnection() calls WiFi.disconnect() and WiFi.reconnect()
wifiReconnect(now) ==
  /\ wifi_connected_mode
  /\ Elapsed(now, last_wifi_check_time) > WifiRecheck
  /\ ~wifi_status

pollDue_always(now) == TRUE

pollDue_backoff(now) ==
  Elapsed(now, last_poll_time) >=
    (IF is_network_error THEN 12 * poll_interval_ms ELSE poll_interval_ms)

\* loop(): the poll interval has passed since the last poll attempt
pollDue(now) == Elapsed(now, last_poll_time) >= poll_interval_ms

overrideExpired_ge(now) ==
  Elapsed(now, last_manual_action_time) >= ManualTimeout

\* the auto-resume test on the manual override
overrideExpired(now) ==
  Elapsed(now, last_manual_action_time) > ManualTimeout

loopHead_apNoFault ==
  /\ pc = "gate"
  /\ sketch = "primary"
  /\ LET current_millis == clock IN
     /\ manual_override_active' =
          IF manual_override_active /\ overrideExpired(current_millis)
            THEN FALSE ELSE manual_override_active
     /\ last_wifi_check_time' = ensureWiFiConnection(current_millis)
     /\ IF wifi_connected_mode
          THEN IF wifi_status
                 THEN /\ IF pollDue(current_millis)
                           THEN /\ last_poll_time' = current_millis
                                /\ pc' = "svc"
                           ELSE /\ pc' = "wd"
                                /\ UNCHANGED last_poll_time
                      /\ UNCHANGED <<last_connection_status,
                                     icinga_reachable, is_network_error>>
                 ELSE /\ last_connection_status' = "No WiFi"
                      /\ icinga_reachable' = FALSE
                      /\ pc' = "wd"
                      /\ UNCHANGED <<last_poll_time, is_network_error>>
          ELSE /\ UNCHANGED is_network_error
               /\ last_connection_status' = "AP Mode"
               /\ icinga_reachable' = FALSE
               /\ pc' = "wd"
               /\ UNCHANGED last_poll_time
  /\ UNCHANGED <<config, save_args, toggle, clock, wifi_status, link_down_for, last_successful_data_time,
                 last_manual_action_time, is_alarm_active, current_state,
                 state_start_time, pin, http>>

\* loop() from millis() to the decision whether to poll
loopHead ==
  /\ pc = "gate"
  /\ sketch = "primary"
  /\ LET current_millis == clock IN
     /\ manual_override_active' =
          IF manual_override_active /\ overrideExpired(current_millis)
            THEN FALSE ELSE manual_override_active
     /\ last_wifi_check_time' = ensureWiFiConnection(current_millis)
     /\ IF wifi_connected_mode
          THEN IF wifi_status
                 THEN /\ IF pollDue(current_millis)
                           THEN /\ last_poll_time' = current_millis
                                /\ pc' = "svc"
                           ELSE /\ pc' = "wd"
                                /\ UNCHANGED last_poll_time
                      /\ UNCHANGED <<last_connection_status,
                                     icinga_reachable, is_network_error>>
                 ELSE /\ last_connection_status' = "No WiFi"
                      /\ icinga_reachable' = FALSE
                      /\ pc' = "wd"
                      /\ UNCHANGED <<last_poll_time, is_network_error>>
          ELSE /\ is_network_error' = TRUE
               /\ last_connection_status' = "AP Mode"
               /\ icinga_reachable' = FALSE
               /\ pc' = "wd"
               /\ UNCHANGED last_poll_time
  /\ UNCHANGED <<config, save_args, toggle, clock, wifi_status, link_down_for, last_successful_data_time,
                 last_manual_action_time, is_alarm_active, current_state,
                 state_start_time, pin, http>>

\* --------------------------------------------------------- primary: poll
icinga_url_svc == DefaultSvcUrl

queryIcingaEndpoint_errClears(url, typeName, o, now) ==
  IF url = ""
    THEN [ret |-> FALSE, reachable |-> icinga_reachable,
          succ |-> last_successful_data_time, err |-> is_network_error,
          status |-> last_connection_status]
  ELSE IF ~o.begin
    THEN [ret |-> FALSE, reachable |-> FALSE,
          succ |-> last_successful_data_time, err |-> is_network_error,
          status |-> "Conn Fail (" \o typeName \o ")"]
  ELSE IF o.code = HTTP_CODE_OK
    THEN [ret |-> (o.body = "results"), reachable |-> TRUE,
          succ |-> now, err |-> FALSE, status |-> "OK (200)"]
  ELSE [ret |-> FALSE, reachable |-> FALSE,
        succ |-> last_successful_data_time, err |-> FALSE,
        status |-> "HTTP " \o ToString(o.code)]

queryIcingaEndpoint_keepsFault(url, typeName, o, now) ==
  IF url = ""
    THEN [ret |-> FALSE, reachable |-> icinga_reachable,
          succ |-> last_successful_data_time, err |-> is_network_error,
          status |-> last_connection_status]
  ELSE IF ~o.begin
    THEN [ret |-> FALSE, reachable |-> FALSE,
          succ |-> last_successful_data_time, err |-> is_network_error,
          status |-> "Conn Fail (" \o typeName \o ")"]
  ELSE IF o.code = HTTP_CODE_OK
    THEN [ret |-> (o.body = "results"), reachable |-> TRUE,
          succ |-> now, err |-> is_network_error, status |-> "OK (200)"]
  ELSE [ret |-> FALSE, reachable |-> FALSE,
        succ |-> last_successful_data_time, err |-> is_network_error,
        status |-> "HTTP " \o ToString(o.code)]

queryIcingaEndpoint_any200(url, typeName, o, now) ==
  IF url = ""
    THEN [ret |-> FALSE, reachable |-> icinga_reachable,
          succ |-> last_successful_data_time, err |-> is_network_error,
          status |-> last_connection_status]
  ELSE IF ~o.begin
    THEN [ret |-> FALSE, reachable |-> FALSE,
          succ |-> last_successful_data_time, err |-> is_network_error,
          status |-> "Conn Fail (" \o typeName \o ")"]
  ELSE IF o.code = HTTP_CODE_OK
    THEN [ret |-> (o.body # "malformed"), reachable |-> TRUE,
          succ |-> now, err |-> FALSE, status |-> "OK (200)"]
  ELSE [ret |-> FALSE, reachable |-> FALSE,
        succ |-> last_successful_data_time, err |-> is_network_error,
        status |-> "HTTP " \o ToString(o.code)]

queryIcingaEndpoint_stampsAlways(url, typeName, o, now) ==
  IF url = ""
    THEN [ret |-> FALSE, reachable |-> icinga_reachable,
          succ |-> last_successful_data_time, err |-> is_network_error,
          status |-> last_connection_status]
  ELSE IF ~o.begin
    THEN [ret |-> FALSE, reachable |-> FALSE,
          succ |-> last_successful_data_time, err |-> is_network_error,
          status |-> "Conn Fail (" \o typeName \o ")"]
  ELSE IF o.code = HTTP_CODE_OK
    THEN [ret |-> (o.body = "results"), reachable |-> TRUE,
          succ |-> now, err |-> FALSE, status |-> "OK (200)"]
  ELSE [ret |-> FALSE, reachable |-> FALSE,
        succ |-> now, err |-> is_network_error,
        status |-> "HTTP " \o ToString(o.code)]

\* the globals one query leaves behind and its return value
queryIcingaEndpoint_failureFaults(url, typeName, o, now) ==
  IF url = ""
    THEN [ret |-> FALSE, reachable |-> icinga_reachable,
          succ |-> last_successful_data_time, err |-> is_network_error,
          status |-> last_connection_status]
  ELSE IF ~o.begin
    THEN [ret |-> FALSE, reachable |-> FALSE,
          succ |-> last_successful_data_time, err |-> is_network_error,
          status |-> "Conn Fail (" \o typeName \o ")"]
  ELSE IF o.code = HTTP_CODE_OK
    THEN [ret |-> (o.body = "results"), reachable |-> TRUE,
          succ |-> now, err |-> FALSE, status |-> "OK (200)"]
  ELSE [ret |-> FALSE, reachable |-> FALSE,
        succ |-> last_successful_data_time, err |-> TRUE,
        status |-> "HTTP " \o ToString(o.code)]

queryIcingaEndpoint(url, typeName, o, now) ==
  IF url = ""
    THEN [ret |-> FALSE, reachable |-> icinga_reachable,
          succ |-> last_successful_data_time, err |-> is_network_error,
          status |-> last_connection_status]
  ELSE IF ~o.begin
    THEN [ret |-> FALSE, reachable |-> FALSE,
          succ |-> last_successful_data_time, err |-> is_network_error,
          status |-> "Conn Fail (" \o typeName \o ")"]
  ELSE IF o.code = HTTP_CODE_OK
    THEN [ret |-> (o.body = "results"), reachable |-> TRUE,
          succ |-> now, err |-> FALSE, status |-> "OK (200)"]
  ELSE [ret |-> FALSE, reachable |-> FALSE,
        succ |-> last_successful_data_time, err |-> is_network_error,
        status |-> "HTTP " \o ToString(o.code)]

hostConsulted_always(service_alarm) == Len(icinga_url_host) > 5

\* checkIcinga(): whether the host endpoint is queried after the service one
hostConsulted(service_alarm) ==
  ~service_alarm /\ Len(icinga_url_host) > 5

\* checkIcinga(): the service query, and the end of checkIcinga() when the
\* host endpoint is not consulted
checkIcingaService(o, d) ==
  /\ pc = "svc"
  /\ sketch = "primary"
  /\ CanAdvance(d)
  /\ clock' = (clock + d) % ULongMod
  /\ LET q == queryIcingaEndpoint(icinga_url_svc, "Service", o, clock') IN
     /\ icinga_reachable' = q.reachable
     /\ last_successful_data_time' = q.succ
     /\ is_network_error' = q.err
     /\ last_connection_status' = q.status
     /\ http' = IF icinga_url_svc = "" THEN NoQuery ELSE o
     /\ IF hostConsulted(q.ret)
          THEN /\ pc' = "host"
               /\ UNCHANGED is_alarm_active
          ELSE /\ pc' = "wd"
               /\ is_alarm_active' = q.ret
  /\ UNCHANGED <<config, save_args, toggle, wifi_status, link_down_for, last_poll_time, last_wifi_check_time,
                 last_manual_action_time, manual_override_active,
                 current_state, state_start_time, pin>>

\* checkIcinga(): the host query (the service query reported no alarm) and
\* the end of checkIcinga()
checkIcingaHost(o, d) ==
  /\ pc = "host"
  /\ sketch = "primary"
  /\ CanAdvance(d)
  /\ clock' = (clock + d) % ULongMod
  /\ LET q == queryIcingaEndpoint(icinga_url_host, "Host", o, clock') IN
     /\ icinga_reachable' = q.reachable
     /\ last_successful_data_time' = q.succ
     /\ is_network_error' = q.err
     /\ last_connection_status' = q.status
     /\ http' = IF icinga_url_host = "" THEN NoQuery ELSE o
     /\ is_alarm_active' = q.ret
  /\ pc' = "wd"
  /\ UNCHANGED <<config, save_args, toggle, wifi_status, link_down_for, last_poll_time, last_wifi_check_time,
                 last_manual_action_time, manual_override_active,
                 current_state, state_start_time, pin>>

\* ----------------------------------------------------- primary: watchdog
WatchdogExpired_ge(now) ==
  Elapsed(now, last_successful_data_time) >= watchdog_timeout_ms

WatchdogExpired_sincePoll(now) ==
  Elapsed(now, last_poll_time) > watchdog_timeout_ms

\* the data is stale
WatchdogExpired(now) ==
  Elapsed(now, last_successful_data_time) > watchdog_timeout_ms

softWatchdog_everyTick(now) ==
  IF WatchdogExpired(now)
    THEN [err |-> TRUE, status |-> "Data Timeout",
          alarm |-> FALSE, reachable |-> FALSE]
    ELSE [err |-> is_network_error, status |-> last_connection_status,
          alarm |-> is_alarm_active, reachable |-> icinga_reachable]

softWatchdog_keepsAlarm(now) ==
  IF WatchdogExpired(now) /\ ~is_network_error
    THEN [err |-> TRUE, status |-> "Data Timeout",
          alarm |-> is_alarm_active, reachable |-> FALSE]
    ELSE [err |-> is_network_error, status |-> last_connection_status,
          alarm |-> is_alarm_active, reachable |-> icinga_reachable]

\* the globals the soft watchdog of loop() leaves behind
softWatchdog(now) ==
  IF WatchdogExpired(now) /\ ~is_network_error
    THEN [err |-> TRUE, status |-> "Data Timeout",
          alarm |-> FALSE, reachable |-> FALSE]
    ELSE [err |-> is_network_error, status |-> last_connection_status,
          alarm |-> is_alarm_active, reachable |-> icinga_reachable]

\* loop(): the soft watchdog step
loopWatchdog ==
  /\ pc = "wd"
  /\ sketch = "primary"
  /\ pc' = "relay"
  /\ LET w == softWatchdog(clock) IN
     /\ is_network_error' = w.err
     /\ last_connection_status' = w.status
     /\ is_alarm_active' = w.alarm
     /\ icinga_reachable' = w.reachable
  /\ http' = NoQuery
  /\ UNCHANGED <<config, save_args, toggle, clock, wifi_status, link_down_for, last_poll_time,
                 last_successful_data_time, last_wifi_check_time,
                 last_manual_action_time, manual_override_active,
                 current_state, state_start_time, pin>>

\* -------------------------------------------------- primary: relay logic
\* the switch of updateRelayLogic(): pins, state and state start it leaves
caseIdle_noWrite(p, now) ==
  IF is_alarm_active
    THEN [pin |-> p, state |-> STATE_INITIAL_ALARM, start |-> now]
    ELSE [pin |-> p, state |-> current_state, start |-> state_start_time]

caseIdle(p, now) ==
  IF is_alarm_active
    THEN [pin |-> digitalWrite(p, 1, RELAY_ON),
          state |-> STATE_INITIAL_ALARM, start |-> now]
    ELSE [pin |-> p, state |-> current_state, start |-> state_start_time]

caseInitialAlarm_gt(p, now) ==
  IF ~is_alarm_active
    THEN [pin |-> digitalWrite(p, 1, RELAY_OFF),
          state |-> STATE_IDLE, start |-> state_start_time]
  ELSE IF Elapsed(now, state_start_time) > init_alarm_duration_ms
    THEN [pin |-> digitalWrite(p, 1, RELAY_OFF),
          state |-> STATE_COOLDOWN, start |-> now]
    ELSE [pin |-> p, state |-> current_state, start |-> state_start_time]

caseInitialAlarm_noStart(p, now) ==
  IF ~is_alarm_active
    THEN [pin |-> digitalWrite(p, 1, RELAY_OFF),
          state |-> STATE_IDLE, start |-> state_start_time]
  ELSE IF Elapsed(now, state_start_time) >= init_alarm_duration_ms
    THEN [pin |-> digitalWrite(p, 1, RELAY_OFF),
          state |-> STATE_COOLDOWN, start |-> state_start_time]
    ELSE [pin |-> p, state |-> current_state, start |-> state_start_time]

caseInitialAlarm(p, now) ==
  IF ~is_alarm_active
    THEN [pin |-> digitalWrite(p, 1, RELAY_OFF),
          state |-> STATE_IDLE, start |-> state_start_time]
  ELSE IF Elapsed(now, state_start_time) >= init_alarm_duration_ms
    THEN [pin |-> digitalWrite(p, 1, RELAY_OFF),
          state |-> STATE_COOLDOWN, start |-> now]
    ELSE [pin |-> p, state |-> current_state, start |-> state_start_time]

caseCooldown_gt(p, now) ==
  IF ~is_alarm_active
    THEN [pin |-> p, state |-> STATE_IDLE, start |-> state_start_time]
  ELSE IF Elapsed(now, state_start_time) > reminder_interval_ms
    THEN [pin |-> digitalWrite(p, 1, RELAY_ON),
          state |-> STATE_REMINDER_ALARM, start |-> now]
    ELSE [pin |-> p, state |-> current_state, start |-> state_start_time]

caseCooldown(p, now) ==
  IF ~is_alarm_active
    THEN [pin |-> p, state |-> STATE_IDLE, start |-> state_start_time]
  ELSE IF Elapsed(now, state_start_time) >= reminder_interval_ms
    THEN [pin |-> digitalWrite(p, 1, RELAY_ON),
          state |-> STATE_REMINDER_ALARM, start |-> now]
    ELSE [pin |-> p, state |-> current_state, start |-> state_start_time]

caseReminderAlarm_toIdle(p, now) ==
  IF ~is_alarm_active
    THEN [pin |-> digitalWrite(p, 1, RELAY_OFF),
          state |-> STATE_IDLE, start |-> state_start_time]
  ELSE IF Elapsed(now, state_start_time) >= reminder_duration_ms
    THEN [pin |-> digitalWrite(p, 1, RELAY_OFF),
          state |-> STATE_IDLE, start |-> now]
    ELSE [pin |-> p, state |-> current_state, start |-> state_start_time]

caseReminderAlarm_timeFirst(p, now) ==
  IF Elapsed(now, state_start_time) >= reminder_duration_ms
    THEN [pin |-> digitalWrite(p, 1, RELAY_OFF),
          state |-> STATE_COOLDOWN, start |-> now]
  ELSE IF ~is_alarm_active
    THEN [pin |-> digitalWrite(p, 1, RELAY_OFF),
          state |-> STATE_IDLE, start |-> state_start_time]
    ELSE [pin |-> p, state |-> current_state, start |-> state_start_time]

caseReminderAlarm(p, now) ==
  IF ~is_alarm_active
    THEN [pin |-> digitalWrite(p, 1, RELAY_OFF),
          state |-> STATE_IDLE, start |-> state_start_time]
  ELSE IF Elapsed(now, state_start_time) >= reminder_duration_ms
    THEN [pin |-> digitalWrite(p, 1, RELAY_OFF),
          state |-> STATE_COOLDOWN, start |-> now]
    ELSE [pin |-> p, state |-> current_state, start |-> state_start_time]

alarmSwitch(p, now) ==
  CASE current_state = STATE_IDLE           -> caseIdle(p, now)
    [] current_state = STATE_INITIAL_ALARM  -> caseInitialAlarm(p, now)
    [] current_state = STATE_COOLDOWN       -> caseCooldown(p, now)
    [] current_state = STATE_REMINDER_ALARM -> caseReminderAlarm(p, now)

faultSilence_none(p) == p

\* the fault branch of updateRelayLogic(): the pins it leaves
faultSilence(p) ==
  IF p[1] = RELAY_ON THEN digitalWrite(p, 1, RELAY_OFF) ELSE p

relayLogic_keepsSpares(now) ==
  IF manual_override_active
    THEN [pin |-> pin, state |-> current_state, start |-> state_start_time]
  ELSE IF is_network_error
    THEN [pin |-> faultSilence(pin),
          state |-> current_state, start |-> state_start_time]
    ELSE alarmSwitch(pin, now)

relayLogic_sparesFirst(now) ==
  LET spare == digitalWrite(digitalWrite(digitalWrite(pin,
                 2, RELAY_OFF), 3, RELAY_OFF), 4, RELAY_OFF) IN
  IF manual_override_active
    THEN [pin |-> spare, state |-> current_state, start |-> state_start_time]
  ELSE IF is_network_error
    THEN [pin |-> faultSilence(spare),
          state |-> current_state, start |-> state_start_time]
    ELSE alarmSwitch(spare, now)

relayLogic_noReturn(now) ==
  IF manual_override_active
    THEN [pin |-> pin, state |-> current_state, start |-> state_start_time]
  ELSE LET spare == digitalWrite(digitalWrite(digitalWrite(pin,
                      2, RELAY_OFF), 3, RELAY_OFF), 4, RELAY_OFF) IN
       IF is_network_error
         THEN alarmSwitch(faultSilence(spare), now)
         ELSE alarmSwitch(spare, now)

relayBody_faultResets(now) ==
  LET spare == digitalWrite(digitalWrite(digitalWrite(pin,
                 2, RELAY_OFF), 3, RELAY_OFF), 4, RELAY_OFF) IN
  IF is_network_error
    THEN [pin |-> faultSilence(spare),
          state |-> STATE_IDLE, start |-> state_start_time]
    ELSE alarmSwitch(spare, now)

\* updateRelayLogic() past its test of manual_override_active
relayBody(now) ==
  LET spare == digitalWrite(digitalWrite(digitalWrite(pin,
                 2, RELAY_OFF), 3, RELAY_OFF), 4, RELAY_OFF) IN
  IF is_network_error
    THEN [pin |-> faultSilence(spare),
          state |-> current_state, start |-> state_start_time]
    ELSE alarmSwitch(spare, now)

\* what updateRelayLogic() leaves behind
relayLogic(now) ==
  IF manual_override_active
    THEN [pin |-> pin, state |-> current_state, start |-> state_start_time]
    ELSE relayBody(now)

\* the digitalWrite() call of the switch: every branch that changes the
\* state writes relay 1, except Cooldown -> Idle
switchCalls(u) ==
  IF u.state = current_state
       \/ (current_state = STATE_COOLDOWN /\ u.state = STATE_IDLE)
    THEN <<>>
    ELSE << <<1, IF u.state \in {STATE_INITIAL_ALARM, STATE_REMINDER_ALARM}
                   THEN RELAY_ON ELSE RELAY_OFF>> >>

\* the digitalWrite() calls one updateRelayLogic() issues, in order
relayCalls(now) ==
  IF manual_override_active THEN <<>>
  ELSE << <<2, RELAY_OFF>>, <<3, RELAY_OFF>>, <<4, RELAY_OFF>> >>
       \o (IF is_network_error
             THEN (IF pin[1] = RELAY_ON THEN << <<1, RELAY_OFF>> >>
                   ELSE <<>>)
             ELSE switchCalls(alarmSwitch(pin, now)))

updateRelayLogic ==
  /\ pc = "relay"
  /\ sketch = "primary"
  /\ pc' = "idle"
  /\ LET u == relayLogic(clock) IN
     /\ pin' = u.pin
     /\ current_state' = u.state
     /\ state_start_time' = u.start
  /\ UNCHANGED <<config, save_args, toggle, clock, wifi_status, link_down_for, last_poll_time,
                 last_successful_data_time, last_wifi_check_time,
                 last_manual_action_time, manual_override_active,
                 last_connection_status, icinga_reachable, is_alarm_active,
                 is_network_error, http>>

\* simulator: updateRelayLogic() tests manual_override_active
simRelayGuard ==
  /\ pc = "relay"
  /\ sketch = "primary"
  /\ pc' = IF manual_override_active THEN "idle" ELSE "body"
  /\ UNCHANGED <<config, save_args, toggle, clock, wifi_status,
                 link_down_for, last_poll_time, last_successful_data_time,
                 last_wifi_check_time, last_manual_action_time,
                 manual_override_active, last_connection_status,
                 icinga_reachable, is_alarm_active, is_network_error,
                 current_state, state_start_time, pin, http>>

\* simulator: updateRelayLogic() past that test
simRelayBody ==
  /\ pc = "body"
  /\ pc' = "idle"
  /\ LET u == relayBody(clock) IN
     /\ pin' = u.pin
     /\ current_state' = u.state
     /\ state_start_time' = u.start
  /\ UNCHANGED <<config, save_args, toggle, clock, wifi_status,
                 link_down_for, last_poll_time, last_successful_data_time,
                 last_wifi_check_time, last_manual_action_time,
                 manual_override_active, last_connection_status,
                 icinga_reachable, is_alarm_active, is_network_error, http>>

\* ------------------------------------------- fail-safe indicator variant
\* last_wifi_check_time after ensureWiFiConnection()
ensureWiFiConnectionV(now) ==
  IF ~wifi_connected_mode THEN last_wifi_check_time
  ELSE IF Elapsed(now, last_wifi_check_time) > WifiRecheck THEN now
  ELSE last_wifi_check_time

\* ensureWiFiConnection() calls WiFi.disconnect() and WiFi.reconnect()
wifiReconnectV(now) ==
  /\ wifi_connected_mode
  /\ Elapsed(now, last_wifi_check_time) > WifiRecheck
  /\ ~wifi_status

\* loop() up to the decision whether to poll (status texts of the "en"
\* language)
loopHeadV ==
  /\ pc = "gate"
  /\ sketch = "failsafe"
  /\ LET current_millis == clock IN
     /\ last_wifi_check_time' = ensureWiFiConnectionV(current_millis)
     /\ IF wifi_connected_mode
          THEN IF wifi_status
                 THEN /\ IF pollDue(current_millis)
                           THEN /\ last_poll_time' = current_millis
                                /\ pc' = "svc"
                           ELSE /\ pc' = "wd"
                                /\ UNCHANGED last_poll_time
                      /\ UNCHANGED <<last_connection_status,
                                     is_network_error>>
                 ELSE /\ last_connection_status' = "No WiFi"
                      /\ pc' = "wd"
                      /\ UNCHANGED <<last_poll_time, is_network_error>>
          ELSE /\ is_network_error' = TRUE
               /\ last_connection_status' = "AP Mode (Config)"
               /\ pc' = "wd"
               /\ UNCHANGED last_poll_time
  /\ UNCHANGED <<config, save_args, toggle, clock, wifi_status, link_down_for, last_successful_data_time,
                 last_manual_action_time, manual_override_active,
                 icinga_reachable, is_alarm_active, current_state,
                 state_start_time, pin, http>>

\* the globals checkIcinga() of the variant leaves behind
pollResultV(o, now) ==
  IF ~o.begin
    THEN [succ |-> last_successful_data_time, err |-> is_network_error,
          alarm |-> is_alarm_active, status |-> "Connect Fail"]
  ELSE IF o.code = HTTP_CODE_OK
    THEN IF o.body # "malformed"
           THEN [succ |-> now, err |-> FALSE,
                 alarm |-> (o.body = "results"), status |-> "OK (200)"]
           ELSE [succ |-> last_successful_data_time,
                 err |-> is_network_error, alarm |-> is_alarm_active,
                 status |-> "JSON Error"]
  ELSE [succ |-> last_successful_data_time, err |-> is_network_error,
        alarm |-> is_alarm_active, status |-> "HTTP " \o ToString(o.code)]

checkIcingaV(o, d) ==
  /\ pc = "svc"
  /\ sketch = "failsafe"
  /\ CanAdvance(d)
  /\ clock' = (clock + d) % ULongMod
  /\ LET q == pollResultV(o, clock') IN
     /\ last_successful_data_time' = q.succ
     /\ is_network_error' = q.err
     /\ is_alarm_active' = q.alarm
     /\ last_connection_status' = q.status
  /\ http' = o
  /\ pc' = "wd"
  /\ UNCHANGED <<config, save_args, toggle, wifi_status, link_down_for, last_poll_time, last_wifi_check_time,
                 last_manual_action_time, manual_override_active,
                 icinga_reachable, current_state, state_start_time, pin>>

checkDataWatchdog ==
  /\ pc = "wd"
  /\ sketch = "failsafe"
  /\ pc' = "relay"
  /\ IF Elapsed(clock, last_successful_data_time) > watchdog_timeout_ms
        /\ ~is_network_error
       THEN /\ is_network_error' = TRUE
            /\ last_connection_status' = "DATA ERROR (Timeout)"
            /\ is_alarm_active' = FALSE
       ELSE UNCHANGED <<is_network_error, last_connection_status,
                        is_alarm_active>>
  /\ http' = NoQuery
  /\ UNCHANGED <<config, save_args, toggle, clock, wifi_status, link_down_for, last_poll_time,
                 last_successful_data_time, last_wifi_check_time,
                 last_manual_action_time, manual_override_active,
                 icinga_reachable, current_state, state_start_time, pin>>

\* the switch of the variant's updateRelayLogic()
alarmSwitchV(p, now) ==
  LET elapsed == Elapsed(now, state_start_time)
      stay    == [pin |-> p, state |-> current_state,
                  start |-> state_start_time]
  IN
  CASE current_state = STATE_IDLE ->
         IF is_alarm_active
           THEN [pin |-> digitalWrite(p, 1, RELAY_ON),
                 state |-> STATE_INITIAL_ALARM, start |-> now]
           ELSE stay
    [] current_state = STATE_INITIAL_ALARM ->
         IF ~is_alarm_active
           THEN [pin |-> digitalWrite(p, 1, RELAY_OFF),
                 state |-> STATE_IDLE, start |-> state_start_time]
         ELSE IF elapsed >= init_alarm_duration_ms
           THEN [pin |-> digitalWrite(p, 1, RELAY_OFF),
                 state |-> STATE_COOLDOWN, start |-> now]
           ELSE stay
    [] current_state = STATE_COOLDOWN ->
         IF ~is_alarm_active
           THEN [pin |-> p, state |-> STATE_IDLE,
                 start |-> state_start_time]
         ELSE IF elapsed >= reminder_interval_ms
           THEN [pin |-> digitalWrite(p, 1, RELAY_ON),
                 state |-> STATE_REMINDER_ALARM, start |-> now]
           ELSE stay
    [] current_state = STATE_REMINDER_ALARM ->
         IF ~is_alarm_active
           THEN [pin |-> digitalWrite(p, 1, RELAY_OFF),
                 state |-> STATE_IDLE, start |-> state_start_time]
         ELSE IF elapsed >= reminder_duration_ms
           THEN [pin |-> digitalWrite(p, 1, RELAY_OFF),
                 state |-> STATE_COOLDOWN, start |-> now]
           ELSE stay

relayLogicV_indicatorAfterReturn(now) ==
  IF is_network_error
    THEN [pin |-> IF pin[1] = RELAY_ON
                    THEN digitalWrite(pin, 1, RELAY_OFF) ELSE pin,
          state |-> current_state, start |-> state_start_time]
    ELSE alarmSwitchV(digitalWrite(pin, 4, RELAY_OFF), now)

\* what the variant's updateRelayLogic() leaves behind
relayLogicV(now) ==
  LET ind == digitalWrite(pin, 4,
                          IF is_network_error THEN RELAY_ON ELSE RELAY_OFF)
  IN
  IF is_network_error
    THEN [pin |-> IF ind[1] = RELAY_ON
                    THEN digitalWrite(ind, 1, RELAY_OFF) ELSE ind,
          state |-> current_state, start |-> state_start_time]
    ELSE alarmSwitchV(ind, now)

\* the digitalWrite() calls one updateRelayLogic() of the variant issues
relayCallsV(now) ==
  << <<4, IF is_network_error THEN RELAY_ON ELSE RELAY_OFF>> >>
  \o (IF is_network_error
        THEN (IF pin[1] = RELAY_ON THEN << <<1, RELAY_OFF>> >> ELSE <<>>)
        ELSE switchCalls(alarmSwitchV(pin, now)))

updateRelayLogicV ==
  /\ pc = "relay"
  /\ sketch = "failsafe"
  /\ pc' = "idle"
  /\ LET u == relayLogicV(clock) IN
     /\ pin' = u.pin
     /\ current_state' = u.state
     /\ state_start_time' = u.start
  /\ UNCHANGED <<config, save_args, toggle, clock, wifi_status, link_down_for, last_poll_time,
                 last_successful_data_time, last_wifi_check_time,
                 last_manual_action_time, manual_override_active,
                 last_connection_status, icinga_reachable, is_alarm_active,
                 is_network_error, http>>

\* -------------------------------------------------------- specifications
\* every step of loop() other than a web request that changes state
LoopStep ==
  \/ handleClient
  \/ loopHead
  \/ \E o \in Outcomes, d \in QueryDurations : checkIcingaService(o, d)
  \/ \E o \in Outcomes, d \in QueryDurations : checkIcingaHost(o, d)
  \/ loopWatchdog
  \/ updateRelayLogic
  \/ loopHeadV
  \/ \E o \in Outcomes, d \in QueryDurations : checkIcingaV(o, d)
  \/ checkDataWatchdog
  \/ updateRelayLogicV

\* automatic operation: no /toggle request is ever issued
NextAuto == Tick \/ LinkChange \/ LoopStep

Next == NextAuto \/ \E r \in ToggleArgs : handleToggle(r)

Spec == Init /\ [][Next]_vars

SpecAuto == Init /\ [][NextAuto]_vars

\* ------------------------------------------------- escalation timeline
\* The primary sketch with its default settings, joined to the network,
\* looping once per poll interval against a backend that answers every
\* service query with HTTP 200 and a non-empty results array.
AlarmOutcome == [begin |-> TRUE, code |-> HTTP_CODE_OK, body |-> "results"]

InitTimeline ==
  /\ Init
  /\ sketch = "primary"
  /\ wifi_connected_mode
  /\ icinga_url_host = DefaultHostUrl
  /\ init_alarm_duration_ms = DefaultTimings.init
  /\ reminder_interval_ms = DefaultTimings.rint
  /\ reminder_duration_ms = DefaultTimings.rdur

\* one poll interval passes between two loop() iterations
TickTimeline ==
  /\ pc = "idle"
  /\ clock + poll_interval_ms <= BootMillis + TimelineTicks * poll_interval_ms
  /\ clock' = (clock + poll_interval_ms) % ULongMod
  /\ pc' = "web"
  /\ UNCHANGED <<config, save_args, toggle, wifi_status, link_down_for, last_poll_time,
                 last_successful_data_time, last_wifi_check_time,
                 last_manual_action_time, manual_override_active,
                 last_connection_status, icinga_reachable, is_alarm_active,
                 is_network_error, current_state, state_start_time, pin,
                 http>>

NextTimeline ==
  \/ TickTimeline
  \/ handleClient
  \/ loopHead
  \/ checkIcingaService(AlarmOutcome, 0)
  \/ loopWatchdog
  \/ updateRelayLogic

SpecTimeline == InitTimeline /\ [][NextTimeline]_vars

\* the instant of the first poll, t = 0 of the timeline
TimelineStart == BootMillis + DefaultPoll

\* ------------------------------------------------ a persisting alarm
\* Either sketch in station mode with the link up, looping for ever
\* against a backend that answers every query with HTTP 200 and a non-empty
\* results array; no /toggle request.  millis() wraps around.
InitForever == Init /\ wifi_connected_mode

\* time passes between two loop() iterations, for ever
TickForever ==
  /\ pc = "idle"
  /\ clock' = (clock + 2^TickBits) % ULongMod
  /\ pc' = "web"
  /\ UNCHANGED <<config, save_args, toggle, wifi_status, link_down_for, last_poll_time,
                 last_successful_data_time, last_wifi_check_time,
                 last_manual_action_time, manual_override_active,
                 last_connection_status, icinga_reachable, is_alarm_active,
                 is_network_error, current_state, state_start_time, pin,
                 http>>

LoopForever ==
  \/ handleClient
  \/ loopHead
  \/ checkIcingaService(AlarmOutcome, 0)
  \/ loopWatchdog
  \/ updateRelayLogic
  \/ loopHeadV
  \/ checkIcingaV(AlarmOutcome, 0)
  \/ checkDataWatchdog
  \/ updateRelayLogicV

NextForever == TickForever \/ LoopForever

\* loop() is called again and again, and time does not stand still
SpecForever ==
  /\ InitForever
  /\ [][NextForever]_vars
  /\ WF_vars(LoopForever)
  /\ SF_vars(TickForever)


\* ------------------------------------------------ after a relay test
\* Either sketch in station mode with the link up, looping for ever
\* against a backend that answers every query with HTTP 200 and a results
\* array that is empty or not; the siren is toggled by at most one
\* /toggle?r=1 request, after which no request arrives.
EmptyOutcome == [begin |-> TRUE, code |-> HTTP_CODE_OK, body |-> "empty"]

TestToggle == last_manual_action_time = 0 /\ handleToggle(1)

LoopAfterTest ==
  \/ handleClient
  \/ loopHead
  \/ \E o \in {AlarmOutcome, EmptyOutcome} : checkIcingaService(o, 0)
  \/ \E o \in {AlarmOutcome, EmptyOutcome} : checkIcingaHost(o, 0)
  \/ loopWatchdog
  \/ updateRelayLogic
  \/ loopHeadV
  \/ \E o \in {AlarmOutcome, EmptyOutcome} : checkIcingaV(o, 0)
  \/ checkDataWatchdog
  \/ updateRelayLogicV

NextAfterTest == TickForever \/ TestToggle \/ LoopAfterTest

SpecAfterTest ==
  /\ InitForever
  /\ [][NextAfterTest]_vars
  /\ WF_vars(LoopAfterTest)
  /\ SF_vars(TickForever)

\* ------------------------------------------- the wrap-around of millis()
\* Either sketch in station mode with the link up, two iterations before
\* millis() wraps around: the iteration just finished has checked the link
\* and polled, the backend answered 200 with no results; there has been no
\* alarm and no /toggle request since boot.
RolloverStart == ULongMod - 2 * Quantum

\* the time since boot of a millis() value read in the observed iterations
Uptime(t) == IF t < RolloverStart THEN t + ULongMod ELSE t

InitRollover ==
  /\ sketch \in {"primary", "failsafe"}
  /\ clock = RolloverStart
  /\ wifi_connected_mode = TRUE
  /\ wifi_status = TRUE
  /\ link_down_for = 0
  /\ save_args = NoSave
  /\ toggle = NoToggle
  /\ icinga_url_host \in (IF sketch = "primary" THEN HostUrls ELSE {""})
  /\ poll_interval_ms = DefaultPoll
  /\ \E t \in TimingConfigs :
       /\ init_alarm_duration_ms = t.init
       /\ reminder_interval_ms = t.rint
       /\ reminder_duration_ms = t.rdur
  /\ watchdog_timeout_ms \in
       (IF sketch = "primary" THEN {DefaultWatchdog} ELSE WatchdogConfigs)
  /\ last_poll_time = clock
  /\ last_successful_data_time = clock
  /\ last_wifi_check_time = clock
  /\ last_manual_action_time = 0
  /\ manual_override_active = FALSE
  /\ last_connection_status = "OK (200)"
  /\ icinga_reachable = (sketch = "primary")
  /\ is_alarm_active = FALSE
  /\ is_network_error = FALSE
  /\ current_state = STATE_IDLE
  /\ state_start_time = 0
  /\ pin = [r \in Relays |-> RELAY_OFF]
  /\ http = NoQuery
  /\ pc = "idle"

\* time passes between two loop() iterations, across the wrap-around
TickRollover ==
  /\ pc = "idle"
  /\ Uptime(clock) + Quantum <= RolloverStart + RolloverTicks * Quantum
  /\ clock' = (clock + Quantum) % ULongMod
  /\ pc' = "web"
  /\ UNCHANGED <<config, save_args, toggle, wifi_status, link_down_for, last_poll_time,
                 last_successful_data_time, last_wifi_check_time,
                 last_manual_action_time, manual_override_active,
                 last_connection_status, icinga_reachable, is_alarm_active,
                 is_network_error, current_state, state_start_time, pin,
                 http>>

\* answers of the backend around the wrap-around
RolloverOutcomes ==
  {AlarmOutcome, EmptyOutcome, [begin |-> TRUE, code |-> 503, body |-> "none"]}

LoopRollover ==
  \/ handleClient
  \/ handleToggle(0)
  \/ handleToggle(1)
  \/ loopHead
  \/ \E o \in RolloverOutcomes : checkIcingaService(o, 0)
  \/ \E o \in RolloverOutcomes : checkIcingaHost(o, 0)
  \/ loopWatchdog
  \/ updateRelayLogic
  \/ loopHeadV
  \/ \E o \in RolloverOutcomes : checkIcingaV(o, 0)
  \/ checkDataWatchdog
  \/ updateRelayLogicV

NextRollover == TickRollover \/ LoopRollover

SpecRollover == InitRollover /\ [][NextRollover]_vars

\* ------------------------------------------------------ saving settings
\* Either sketch on its first boot, with the compiled-in timings; the
\* settings are saved over and over, with values typed in or with the
\* values the configuration page displays.
InitSave ==
  /\ Init
  /\ init_alarm_duration_ms = DefaultTimings.init
  /\ reminder_interval_ms = DefaultTimings.rint
  /\ reminder_duration_ms = DefaultTimings.rdur
  /\ watchdog_timeout_ms = DefaultWatchdog

NextSave ==
  \/ \E a \in SaveArgs : postSave(a)
  \/ postSave(IF sketch = "primary" THEN shownTimings ELSE shownTimingsV)
  \/ handleSave
  \/ handleSaveV

SpecSave == InitSave /\ [][NextSave]_vars

\* ---------------------------------------------------------- simulator
\* The primary sketch built for the Linux simulator: joined to the network,
\* the link always up, the compiled-in timings and the simulator's host URL;
\* /toggle requests are served by the HTTP server thread.
InitSim ==
  /\ InitTimeline
  /\ wifi_status

SimToggleArgs == {0, 1, 2}

ServerThread ==
  \/ \E r \in SimToggleArgs : simDispatch(r)
  \/ simClearOverride
  \/ simSetOverride
  \/ simStamp
  \/ simRead
  \/ simWrite

MainThread ==
  \/ Tick
  \/ handleClient
  \/ loopHead
  \/ \E o \in {AlarmOutcome, EmptyOutcome} : checkIcingaService(o, 0)
  \/ \E o \in {AlarmOutcome, EmptyOutcome} : checkIcingaHost(o, 0)
  \/ loopWatchdog
  \/ simRelayGuard
  \/ simRelayBody

NextSim == ServerThread \/ MainThread

SpecSim == InitSim /\ [][NextSim]_vars

\* ------------------------------------------------- a host endpoint down
\* The primary sketch joined to the network, the link up, with the default
\* host URL: the service endpoint answers every query with HTTP 200 and no
\* results, the host endpoint fails every query.
InitHostDown ==
  /\ Init
  /\ sketch = "primary"
  /\ wifi_connected_mode
  /\ icinga_url_host = DefaultHostUrl

HostFailures == {o \in Outcomes : ~(o.begin /\ o.code = HTTP_CODE_OK)}

NextHostDown ==
  \/ Tick
  \/ handleClient
  \/ \E r \in ToggleArgs : handleToggle(r)
  \/ loopHead
  \/ \E d \in QueryDurations : checkIcingaService(EmptyOutcome, d)
  \/ \E o \in HostFailures, d \in QueryDurations : checkIcingaHost(o, d)
  \/ loopWatchdog
  \/ updateRelayLogic

SpecHostDown == InitHostDown /\ [][NextHostDown]_vars

\* ------------------------------------------------------------------ claims
AlarmStates == {STATE_INITIAL_ALARM, STATE_REMINDER_ALARM}
\* the step that evaluates updateRelayLogic()
RelayStep == pc = "relay" /\ pc' = "idle"
\* the watchdog step of loop()
WatchdogStep == pc = "wd" /\ pc' = "relay"
\* one query of a poll
QueryStep == pc \in {"svc", "host"}
\* the query just made received HTTP 200
Http200(h) == h.begin /\ h.code = 200

\* C1: in the primary sketch without /toggle requests, at the end of every
\* loop() iteration relay 1 is ON only if the machine is in the initial or
\* the reminder alarm state and no fault is active.
C1_SirenOnlyInAlarm ==
  (sketch = "primary" /\ pc = "idle" /\ pin[1] = RELAY_ON)
    => (current_state \in AlarmStates /\ ~is_network_error)

C1_Witness ==
  /\ sketch = "primary" /\ pc = "idle" /\ pin[1] = RELAY_ON
  /\ current_state = STATE_REMINDER_ALARM /\ ~wifi_status

\* C2: every evaluation of updateRelayLogic() at which is_network_error is
\* true returns with relay 1 OFF and current_state unchanged, manual
\* override or not.
C2_FaultBeforeOverride ==
  [][(RelayStep /\ is_network_error)
       => (pin'[1] = RELAY_OFF /\ current_state' = current_state)]_vars

\* C3: an evaluation of updateRelayLogic() with a fault active, no manual
\* override and the machine in the initial or the reminder alarm state
\* leaves relay 1 OFF and current_state as it was, whatever the elapsed time.
C3_FaultSilencesAlarm ==
  [][(RelayStep /\ is_network_error /\ ~manual_override_active
        /\ current_state \in AlarmStates)
       => (pin'[1] = RELAY_OFF /\ current_state' = current_state)]_vars

C3_Witness ==
  /\ pc = "idle" /\ wifi_connected_mode /\ is_network_error
  /\ ~manual_override_active /\ current_state \in AlarmStates
  /\ pin[1] = RELAY_OFF
  /\ Elapsed(clock, state_start_time) >= reminder_duration_ms

\* C4: at the end of every loop() iteration a fault implies that the alarm
\* signal is false.
C4_FaultForcesAlarmFalse ==
  (pc = "idle" /\ is_network_error) => ~is_alarm_active

C4_Witness ==
  /\ pc = "idle" /\ wifi_connected_mode /\ is_network_error
  /\ ~is_alarm_active /\ current_state # STATE_IDLE
  /\ last_connection_status \in {"Data Timeout", "DATA ERROR (Timeout)"}

\* C5: without /toggle requests and with the 60000 ms watchdog, at the end
\* of a loop() iteration at which more than 60000 ms have passed since the
\* last successful poll the fault flag is up, the alarm signal is false and
\* relay 1 is OFF.
C5_StaleDataSilences ==
  (pc = "idle" /\ watchdog_timeout_ms = 60000
     /\ Elapsed(clock, last_successful_data_time) > 60000)
    => (is_network_error /\ ~is_alarm_active /\ pin[1] = RELAY_OFF)

C5_Witness ==
  /\ pc = "idle" /\ sketch = "primary" /\ wifi_connected_mode
  /\ watchdog_timeout_ms = 60000
  /\ Elapsed(clock, last_successful_data_time) > 60000
  /\ Elapsed(clock, last_successful_data_time) <= 60000 + Quantum
  /\ last_connection_status = "Data Timeout"
  /\ current_state \in AlarmStates
  /\ is_network_error /\ ~is_alarm_active /\ pin[1] = RELAY_OFF

\* C6: the watchdog step leaves is_network_error true whenever more than
\* watchdog_timeout_ms have passed since the last successful poll (or since
\* boot), and in station mode no step raises is_network_error while that
\* time is at most watchdog_timeout_ms.
C6_WatchdogRaise ==
  [][/\ (WatchdogStep
           /\ Elapsed(clock, last_successful_data_time) > watchdog_timeout_ms)
          => is_network_error'
     /\ (wifi_connected_mode /\ ~is_network_error /\ is_network_error')
          => Elapsed(clock, last_successful_data_time) > watchdog_timeout_ms
    ]_vars

C6_Witness ==
  /\ pc = "relay" /\ wifi_connected_mode /\ is_network_error
  /\ last_successful_data_time = BootMillis
  /\ Elapsed(clock, last_successful_data_time) > watchdog_timeout_ms

\* C7: is_network_error goes from true to false only in a query step whose
\* query received HTTP 200 (and, in the fail-safe variant, a body that
\* parsed); no other step clears it.
C7_ClearedOnlyByPoll ==
  [][(is_network_error /\ ~is_network_error')
       => /\ QueryStep
          /\ Http200(http')
          /\ sketch = "failsafe" => http'.body # "malformed"]_vars

C7_Witness ==
  /\ sketch = "failsafe" /\ pc = "wd" /\ Http200(http)
  /\ ~is_network_error /\ pin[4] = RELAY_ON

\* C8: a query that ends with a connection failure, a timeout or a status
\* other than 200 changes neither last_successful_data_time nor
\* is_network_error, and last_successful_data_time changes only in a query
\* that received HTTP 200.
C8_FailedQueryNoStamp ==
  [][/\ (QueryStep /\ ~Http200(http'))
          => /\ last_successful_data_time' = last_successful_data_time
             /\ is_network_error' = is_network_error
     /\ (last_successful_data_time' # last_successful_data_time)
          => (QueryStep /\ Http200(http'))
    ]_vars

C8_Witness ==
  /\ pc \in {"host", "wd"} /\ http # NoQuery /\ ~Http200(http)
  /\ is_network_error /\ wifi_connected_mode
  /\ Elapsed(clock, last_successful_data_time) > watchdog_timeout_ms

\* C9: a query that receives HTTP 200 with an unparseable body changes
\* neither last_successful_data_time nor is_network_error.
C9_MalformedIsFault ==
  [][(QueryStep /\ Http200(http') /\ http'.body = "malformed")
       => /\ last_successful_data_time' = last_successful_data_time
          /\ is_network_error' = is_network_error]_vars

\* C10: at the end of every loop() iteration without manual override, the
\* machine in the initial or the reminder alarm state and no fault active
\* imply that relay 1 is ON.
C10_AlarmStateSirenOn ==
  (pc = "idle" /\ ~manual_override_active
     /\ current_state \in AlarmStates /\ ~is_network_error)
    => pin[1] = RELAY_ON


\* C11: every change of current_state made by an evaluation of
\* updateRelayLogic is one of the seven rows of the transition table, taken
\* under that row's condition and with that row's relay-1 level and
\* state_start_time: the rows to Idle need the alarm to be false (whether or
\* not the timeout has elapsed) and keep state_start_time, the timed rows
\* need the alarm and the elapsed timeout and restart state_start_time, and
\* Cooldown -> Idle leaves relay 1 as it was.
C11_TableRows ==
  [][RelayStep /\ current_state' # current_state =>
       LET elapsed == Elapsed(clock, state_start_time) IN
       \/ /\ current_state = STATE_IDLE
          /\ current_state' = STATE_INITIAL_ALARM
          /\ is_alarm_active
          /\ pin'[1] = RELAY_ON
          /\ state_start_time' = clock
       \/ /\ current_state = STATE_INITIAL_ALARM
          /\ current_state' = STATE_IDLE
          /\ ~is_alarm_active
          /\ pin'[1] = RELAY_OFF
          /\ state_start_time' = state_start_time
       \/ /\ current_state = STATE_INITIAL_ALARM
          /\ current_state' = STATE_COOLDOWN
          /\ is_alarm_active
          /\ elapsed >= init_alarm_duration_ms
          /\ pin'[1] = RELAY_OFF
          /\ state_start_time' = clock
       \/ /\ current_state = STATE_COOLDOWN
          /\ current_state' = STATE_IDLE
          /\ ~is_alarm_active
          /\ pin'[1] = pin[1]
          /\ state_start_time' = state_start_time
       \/ /\ current_state = STATE_COOLDOWN
          /\ current_state' = STATE_REMINDER_ALARM
          /\ is_alarm_active
          /\ elapsed >= reminder_interval_ms
          /\ pin'[1] = RELAY_ON
          /\ state_start_time' = clock
       \/ /\ current_state = STATE_REMINDER_ALARM
          /\ current_state' = STATE_IDLE
          /\ ~is_alarm_active
          /\ pin'[1] = RELAY_OFF
          /\ state_start_time' = state_start_time
       \/ /\ current_state = STATE_REMINDER_ALARM
          /\ current_state' = STATE_COOLDOWN
          /\ is_alarm_active
          /\ elapsed >= reminder_duration_ms
          /\ pin'[1] = RELAY_OFF
          /\ state_start_time' = clock]_vars

\* the Cooldown -> ReminderAlarm row has just been taken
C11_Witness ==
  /\ pc = "idle"
  /\ current_state = STATE_REMINDER_ALARM
  /\ state_start_time = clock
  /\ pin[1] = RELAY_ON
  /\ is_alarm_active

\* an evaluation of updateRelayLogic with the alarm present, no fault and no
\* manual override
AlarmEvaluation ==
  RelayStep /\ is_alarm_active /\ ~is_network_error /\ ~manual_override_active

\* C12: STATE_INITIAL_ALARM is entered with relay 1 ON and state_start_time
\* = now; every evaluation in it with the alarm present, no fault and no
\* manual override keeps the state, relay 1 and state_start_time while
\* now - state_start_time < init_alarm_duration_ms, and moves to
\* STATE_COOLDOWN as soon as now - state_start_time >= init_alarm_duration_ms;
\* between evaluations nothing but a manual toggle touches relay 1 or the
\* state.
C12_InitialAlarmHold ==
  [][/\ RelayStep /\ current_state # STATE_INITIAL_ALARM
          /\ current_state' = STATE_INITIAL_ALARM
        => pin'[1] = RELAY_ON /\ state_start_time' = clock
     /\ AlarmEvaluation /\ current_state = STATE_INITIAL_ALARM
        => IF Elapsed(clock, state_start_time) < init_alarm_duration_ms
             THEN /\ current_state' = STATE_INITIAL_ALARM
                  /\ pin'[1] = pin[1]
                  /\ state_start_time' = state_start_time
             ELSE /\ current_state' = STATE_COOLDOWN
                  /\ pin'[1] = RELAY_OFF
     /\ ~RelayStep /\ ~manual_override_active'
          /\ current_state = STATE_INITIAL_ALARM
        => /\ pin'[1] = pin[1]
           /\ current_state' = current_state
           /\ state_start_time' = state_start_time]_vars

\* the initial alarm has just timed out into the cooldown
C12_Witness ==
  /\ pc = "idle"
  /\ current_state = STATE_COOLDOWN
  /\ state_start_time = clock
  /\ reminder_interval_ms > MaxTicks * Quantum
  /\ is_alarm_active /\ ~is_network_error /\ ~manual_override_active
  /\ pin[1] = RELAY_OFF

\* C13: STATE_COOLDOWN is entered with relay 1 OFF; every evaluation in it
\* with the alarm present, no fault and no manual override keeps the state,
\* relay 1 and state_start_time while now - state_start_time <
\* reminder_interval_ms, and moves to STATE_REMINDER_ALARM with relay 1 ON as
\* soon as now - state_start_time >= reminder_interval_ms; between
\* evaluations nothing but a manual toggle touches relay 1 or the state.
C13_CooldownHold ==
  [][/\ RelayStep /\ current_state # STATE_COOLDOWN
          /\ current_state' = STATE_COOLDOWN
        => pin'[1] = RELAY_OFF /\ state_start_time' = clock
     /\ AlarmEvaluation /\ current_state = STATE_COOLDOWN
        => IF Elapsed(clock, state_start_time) < reminder_interval_ms
             THEN /\ current_state' = STATE_COOLDOWN
                  /\ pin'[1] = pin[1]
                  /\ state_start_time' = state_start_time
             ELSE /\ current_state' = STATE_REMINDER_ALARM
                  /\ pin'[1] = RELAY_ON
                  /\ state_start_time' = clock
     /\ ~RelayStep /\ ~manual_override_active'
          /\ current_state = STATE_COOLDOWN
        => /\ pin'[1] = pin[1]
           /\ current_state' = current_state
           /\ state_start_time' = state_start_time]_vars

\* the cooldown has just run its full reminder interval
C13_Witness ==
  /\ pc = "idle"
  /\ current_state = STATE_REMINDER_ALARM
  /\ state_start_time = clock
  /\ reminder_interval_ms = init_alarm_duration_ms
  /\ is_alarm_active /\ ~is_network_error /\ ~manual_override_active
  /\ pin[1] = RELAY_ON

\* relay 1 as the escalation timeline wants it t ms after the first poll
TimelineOn(t) ==
  \/ 0 <= t /\ t < DefaultTimings.init
  \/ /\ DefaultTimings.init + DefaultTimings.rint <= t
     /\ t < DefaultTimings.init + DefaultTimings.rint + DefaultTimings.rdur

\* C14: with the default timings, every poll succeeding and reporting an
\* alarm from the first poll (t = 0) and the loop evaluated every poll
\* interval, relay 1 is ON after the evaluations at 0 <= t < 30000, OFF from
\* t = 30000, ON again from t = 330000 and OFF from t = 345000; inside an
\* iteration relay 1 is as the timeline wants it at this instant or as it
\* wanted it one poll interval before.
C14_EscalationTimeline ==
  LET t  == clock - TimelineStart
      on == pin[1] = RELAY_ON
  IN /\ pc = "idle" => (on <=> TimelineOn(t))
     /\ pc # "idle" =>
          \/ on <=> TimelineOn(t)
          \/ on <=> TimelineOn(t - poll_interval_ms)

\* the reminder has just ended, 345000 ms after the alarm appeared
C14_Witness ==
  /\ pc = "idle"
  /\ clock = TimelineStart + DefaultTimings.init + DefaultTimings.rint
               + DefaultTimings.rdur
  /\ current_state = STATE_COOLDOWN
  /\ state_start_time = clock
  /\ pin[1] = RELAY_OFF
  /\ is_alarm_active

\* C15: from each of STATE_INITIAL_ALARM, STATE_COOLDOWN and
\* STATE_REMINDER_ALARM, an evaluation of updateRelayLogic with no fault and
\* the alarm cleared leaves current_state = STATE_IDLE and relay 1 OFF (stated
\* for the evaluations that are not suspended by a manual override, which
\* the claim includes as well).
C15_ClearedAlarmToIdle ==
  [][RelayStep /\ current_state # STATE_IDLE
       /\ ~is_network_error /\ ~is_alarm_active /\ ~manual_override_active
     => current_state' = STATE_IDLE /\ pin'[1] = RELAY_OFF]_vars

\* the answer is HTTP 200 with a body that parses to a non-empty results
\* array
NonEmptyResults(h) == Http200(h) /\ h.body = "results"
\* the answer is HTTP 200 with a body that parses to an empty results array
EmptyResults(h) == Http200(h) /\ h.body = "empty"
\* the query that ends a poll attempt
LastQueryStep == QueryStep /\ pc' = "wd"

\* C16: a query reports an alarm exactly when it got HTTP 200 with a body
\* that parsed to a non-empty results array: the primary sketch ends a poll
\* attempt with is_alarm_active equal to that of its last query, and no
\* query raises is_alarm_active otherwise.  A well-formed 200 answer with an
\* empty results array ends the attempt with is_alarm_active false and no
\* fault, the watchdog leaves it so, and the evaluation that follows in
\* STATE_IDLE keeps current_state, relay 1 and state_start_time.
C16_AlarmIffResults ==
  [][/\ LastQueryStep /\ sketch = "primary"
        => (is_alarm_active' <=> NonEmptyResults(http'))
     /\ QueryStep /\ is_alarm_active' /\ ~is_alarm_active
        => NonEmptyResults(http')
     /\ LastQueryStep /\ EmptyResults(http')
        => ~is_alarm_active' /\ ~is_network_error'
     /\ WatchdogStep /\ EmptyResults(http)
        => ~is_alarm_active' /\ ~is_network_error'
     /\ RelayStep /\ current_state = STATE_IDLE
          /\ ~is_alarm_active /\ ~is_network_error
        => /\ current_state' = STATE_IDLE
           /\ pin'[1] = pin[1]
           /\ state_start_time' = state_start_time]_vars

\* a poll in STATE_IDLE has just been answered with an empty results array
C16_Witness ==
  /\ pc = "wd"
  /\ EmptyResults(http)
  /\ current_state = STATE_IDLE
  /\ ~is_alarm_active
  /\ last_successful_data_time = clock

\* C17 as claimed: the host endpoint is queried in a poll attempt of the
\* primary sketch if and only if the service query reported no alarm and the
\* host URL is non-empty.
C17_HostIffNonEmpty ==
  [][pc = "svc" /\ sketch = "primary"
     => (pc' = "host" <=> ~NonEmptyResults(http') /\ icinga_url_host # "")
    ]_vars

\* C17: a poll attempt of the primary sketch queries the service endpoint
\* first; it queries the host endpoint if and only if the service query
\* reported no alarm and the host URL is longer than 5 characters; and it
\* ends with is_alarm_active = (service alarm OR host alarm).
C17_HostIffLongUrl ==
  [][/\ pc = "gate" /\ pc' \in {"svc", "host"} => pc' = "svc"
     /\ pc = "svc" /\ sketch = "primary"
        => /\ pc' = "host" <=>
                ~NonEmptyResults(http') /\ Len(icinga_url_host) > 5
           /\ pc' = "wd" => (is_alarm_active' <=> NonEmptyResults(http'))
     /\ pc = "host"
        => /\ sketch = "primary"
           /\ pc' = "wd"
           /\ is_alarm_active' <=>
                NonEmptyResults(http) \/ NonEmptyResults(http')]_vars

\* the service query reported no alarm and the attempt ended without a host
\* query although a host URL is set
C17_Witness ==
  /\ pc = "wd"
  /\ sketch = "primary"
  /\ icinga_url_host # ""
  /\ Len(icinga_url_host) <= 5
  /\ EmptyResults(http)
  /\ ~is_alarm_active

\* the head of a loop() iteration, where the override may expire
GateStep == pc = "gate" /\ pc' # "gate"
\* server.handleClient() at the top of a loop() iteration
WebStep == pc \in {"idle", "web"} /\ pc' = "gate"

\* C18: a loop iteration keeps an active manual override exactly while
\* now - last_manual_action_time <= 60000 and drops it at the first
\* iteration with now - last_manual_action_time > 60000; the override starts
\* only with a /toggle request, which stamps last_manual_action_time = now,
\* as does every toggle that switches a relay while it is active; it ends
\* only by that expiry or by a request that touches neither a relay nor the
\* stamp; and /toggle?r=0 always ends an active override at once.
C18_OverrideWindow ==
  [][/\ manual_override_active /\ pc \in {"idle", "web"}
        => /\ ENABLED (handleToggle(0) /\ ~manual_override_active')
           /\ ~ENABLED (handleToggle(0) /\ manual_override_active')
     /\ GateStep /\ manual_override_active
        => (manual_override_active' <=>
              Elapsed(clock, last_manual_action_time) <= ManualTimeout)
     /\ ~manual_override_active /\ manual_override_active'
        => WebStep /\ last_manual_action_time' = clock
     /\ last_manual_action_time' # last_manual_action_time
        => WebStep /\ manual_override_active'
             /\ last_manual_action_time' = clock
     /\ WebStep /\ pin' # pin
        => manual_override_active' /\ last_manual_action_time' = clock
     /\ manual_override_active /\ ~manual_override_active'
        => \/ GateStep
           \/ /\ WebStep
              /\ pin' = pin
              /\ last_manual_action_time' = last_manual_action_time
    ]_vars

\* the override has just run out, more than 60 s after the last toggle, and
\* the toggled spare relay is still ON
C18_Witness ==
  /\ pc \in {"svc", "wd"}
  /\ ~manual_override_active
  /\ last_manual_action_time > 0
  /\ Elapsed(clock, last_manual_action_time) > ManualTimeout
  /\ pin[2] = RELAY_ON

\* C19: while manual_override_active is true an evaluation of
\* updateRelayLogic leaves the four relay pins, current_state and
\* state_start_time unchanged, and a relay pin changes only in a /toggle
\* request that keeps the override active; meanwhile a due poll is still
\* made, a query answered with HTTP 200 still stamps
\* last_successful_data_time and clears the fault, a poll attempt still ends
\* with is_alarm_active as its last query reported, and the watchdog still
\* raises the fault and clears is_alarm_active on stale data.
C19_OverrideFreezesOutputs ==
  [][/\ RelayStep /\ manual_override_active
        => /\ pin' = pin
           /\ current_state' = current_state
           /\ state_start_time' = state_start_time
     /\ manual_override_active /\ pin' # pin
        => WebStep /\ manual_override_active'
     /\ GateStep /\ manual_override_active' /\ wifi_connected_mode
          /\ wifi_status
          /\ Elapsed(clock, last_poll_time) >= poll_interval_ms
        => pc' = "svc" /\ last_poll_time' = clock
     /\ QueryStep /\ manual_override_active /\ Http200(http')
        => last_successful_data_time' = clock' /\ ~is_network_error'
     /\ LastQueryStep /\ manual_override_active
        => (is_alarm_active' <=> NonEmptyResults(http'))
     /\ WatchdogStep /\ manual_override_active /\ ~is_network_error
          /\ Elapsed(clock, last_successful_data_time) > watchdog_timeout_ms
        => is_network_error' /\ ~is_alarm_active'
    ]_vars

\* an evaluation has just run under manual override, with the siren and a
\* spare relay toggled ON and the watchdog having raised the fault meanwhile
C19_Witness ==
  /\ pc = "idle"
  /\ manual_override_active
  /\ pin[1] = RELAY_ON /\ pin[2] = RELAY_ON
  /\ wifi_connected_mode
  /\ is_network_error
  /\ last_manual_action_time < clock

\* C20: an evaluation of updateRelayLogic that is not suspended by a manual
\* override (none was ever started, or it has ended by expiry or by
\* /toggle?r=0) leaves relay 1 ON only if current_state is
\* STATE_INITIAL_ALARM or STATE_REMINDER_ALARM and no fault is active.
C20_SirenResumesAutomatic ==
  [][RelayStep /\ ~manual_override_active /\ pin'[1] = RELAY_ON
     => current_state' \in AlarmStates /\ ~is_network_error']_vars

RECURSIVE WritesChangeLevel(_, _)
\* every write of the sequence carries a level the pin does not hold when
\* the write is made
WritesChangeLevel(p, w) ==
  \/ w = <<>>
  \/ /\ Head(w)[2] # p[Head(w)[1]]
     /\ WritesChangeLevel([p EXCEPT ![Head(w)[1]] = Head(w)[2]], Tail(w))

\* the digitalWrite() calls of the evaluation about to run
EvaluationCalls ==
  IF sketch = "primary" THEN relayCalls(clock) ELSE relayCallsV(clock)

C22_IndicatorFollowsFault ==
  [][/\ RelayStep /\ sketch = "failsafe"
        => (pin'[4] = RELAY_ON <=> is_network_error')
     /\ sketch = "failsafe" /\ pc' = "idle" /\ pc = "idle"
        => (pin'[4] = RELAY_ON <=> is_network_error')]_vars

\* the variant has ended an iteration with stale data and the indicator ON
C22_Witness ==
  /\ pc = "idle"
  /\ sketch = "failsafe"
  /\ wifi_connected_mode
  /\ is_network_error
  /\ pin[4] = RELAY_ON

\* C23: in the primary sketch every evaluation of updateRelayLogic, the last
\* step of a loop() iteration, made without manual override leaves relays 2,
\* 3 and 4 OFF; between two iterations a spare relay is ON only while
\* manual_override_active is true; and a /toggle request that changes a relay
\* inverts that relay and changes no other.
C23_SparesOffUnlessOverride ==
  [][/\ RelayStep /\ sketch = "primary" /\ ~manual_override_active
        => \A r \in 2..4 : pin'[r] = RELAY_OFF
     /\ sketch = "primary" /\ pc' = "idle"
          /\ (\E r \in 2..4 : pin'[r] = RELAY_ON)
        => manual_override_active'
     /\ WebStep /\ pin' # pin
        => \E k \in Relays :
             /\ pin'[k] = 1 - pin[k]
             /\ \A r \in Relays \ {k} : pin'[r] = pin[r]]_vars

\* an iteration has ended under manual override with spare relay 2 ON
C23_Witness ==
  /\ pc = "idle"
  /\ sketch = "primary"
  /\ manual_override_active
  /\ pin[2] = RELAY_ON
  /\ pin[1] = RELAY_OFF

\* the query just answered counts as a successful poll: HTTP 200 and, in the
\* fail-safe variant, a body that parsed
PollSucceeded(h) ==
  Http200(h) /\ (sketch = "failsafe" => h.body # "malformed")

\* C24: a query that succeeds stamps last_successful_data_time with the
\* current time and clears is_network_error, whatever the fault before; no
\* later query of the attempt raises the fault again, and neither does the
\* watchdog step while the stamp is at most watchdog_timeout_ms old, so the
\* iteration ends without fault; a fault never changes current_state or
\* state_start_time, which only an evaluation of updateRelayLogic without
\* fault changes, so the evaluation resumes from the state it had kept.
C24_AutomaticRecovery ==
  [][/\ QueryStep /\ PollSucceeded(http')
        => last_successful_data_time' = clock' /\ ~is_network_error'
     /\ QueryStep /\ ~is_network_error => ~is_network_error'
     /\ WatchdogStep /\ wifi_connected_mode /\ ~is_network_error
          /\ Elapsed(clock, last_successful_data_time) <= watchdog_timeout_ms
        => ~is_network_error'
     /\ WatchdogStep /\ PollSucceeded(http) => ~is_network_error'
     /\ current_state' # current_state \/ state_start_time' # state_start_time
        => RelayStep /\ ~is_network_error
    ]_vars

\* a poll has just succeeded after a fault had silenced the initial alarm:
\* the fault is gone, the state is the one kept, and no toggle was ever made
C24_Witness ==
  /\ pc = "wd"
  /\ wifi_connected_mode
  /\ PollSucceeded(http)
  /\ ~is_network_error
  /\ last_successful_data_time = clock
  /\ current_state = STATE_INITIAL_ALARM
  /\ pin[1] = RELAY_OFF
  /\ last_manual_action_time = 0

\* C25: when every poll succeeds and reports an alarm and no /toggle request
\* is made, the machine reaches STATE_COOLDOWN or STATE_REMINDER_ALARM and
\* from then on is always in one of the two, never again in STATE_IDLE or
\* STATE_INITIAL_ALARM; it is in each of the two again and again, and relay 1
\* is ON again and again and OFF again and again.
C25_EscalationForever ==
  /\ <>(current_state \in {STATE_COOLDOWN, STATE_REMINDER_ALARM})
  /\ [](current_state \in {STATE_COOLDOWN, STATE_REMINDER_ALARM}
        => [](current_state \in {STATE_COOLDOWN, STATE_REMINDER_ALARM}))
  /\ []<>(current_state = STATE_COOLDOWN /\ pin[1] = RELAY_OFF)
  /\ []<>(current_state = STATE_REMINDER_ALARM /\ pin[1] = RELAY_ON)

\* the escalation is still going on when millis() has wrapped around to its
\* value at boot
C25_Witness ==
  /\ pc = "idle"
  /\ clock = BootMillis
  /\ current_state = STATE_COOLDOWN
  /\ state_start_time = clock
  /\ is_alarm_active
  /\ pin[1] = RELAY_OFF

\* C26: in station mode with the link up a poll is made in the first
\* iteration that starts at least poll_interval_ms after the previous poll
\* attempt.  When the last query of that poll reports an alarm, the watchdog
\* step of the iteration leaves the alarm present and no fault, and the
\* evaluation that ends the iteration, in STATE_IDLE and without manual
\* override, switches relay 1 ON; when it reports an empty result, the
\* watchdog step leaves no alarm and no fault, and the evaluation, in
\* STATE_INITIAL_ALARM or STATE_REMINDER_ALARM and without manual override,
\* switches relay 1 OFF.
C26_ResponseWithinPoll ==
  [][/\ GateStep /\ wifi_connected_mode /\ wifi_status
          /\ Elapsed(clock, last_poll_time) >= poll_interval_ms
        => pc' = "svc"
     /\ LastQueryStep /\ NonEmptyResults(http')
        => is_alarm_active' /\ ~is_network_error'
     /\ WatchdogStep /\ NonEmptyResults(http)
        => is_alarm_active' /\ ~is_network_error'
     /\ AlarmEvaluation /\ current_state = STATE_IDLE
        => pin'[1] = RELAY_ON /\ current_state' = STATE_INITIAL_ALARM
     /\ LastQueryStep /\ EmptyResults(http')
        => ~is_alarm_active' /\ ~is_network_error'
     /\ WatchdogStep /\ EmptyResults(http)
        => ~is_alarm_active' /\ ~is_network_error'
     /\ RelayStep /\ current_state \in AlarmStates /\ ~is_alarm_active
          /\ ~is_network_error /\ ~manual_override_active
        => pin'[1] = RELAY_OFF /\ current_state' = STATE_IDLE]_vars

\* the siren has been switched ON in the very iteration whose poll saw the
\* alarm
C26_Witness ==
  /\ pc = "idle"
  /\ last_poll_time = clock
  /\ last_successful_data_time = clock
  /\ current_state = STATE_INITIAL_ALARM
  /\ state_start_time = clock
  /\ pin[1] = RELAY_ON
  /\ ~manual_override_active

\* C27: whenever relay 1 is ON it is OFF at some later time, while loop()
\* keeps being called, time advances and no further /toggle request arrives,
\* whatever the polls answer.
C27_SirenNeverStuck == (pin[1] = RELAY_ON) ~> (pin[1] = RELAY_OFF)

\* the order of the steps of one loop() iteration: web requests, then
\* connectivity maintenance and the poll decision, then the queries of at
\* most one poll, then the watchdog, then the relay logic
IterationOrder ==
  {<<"idle", "idle">>, <<"idle", "web">>, <<"idle", "gate">>,
   <<"web", "gate">>, <<"gate", "svc">>, <<"gate", "wd">>,
   <<"svc", "host">>, <<"svc", "wd">>, <<"host", "wd">>,
   <<"wd", "relay">>, <<"relay", "idle">>}

\* C28: every loop() iteration serves web requests, maintains connectivity,
\* makes at most one poll attempt, evaluates the watchdog and evaluates the
\* relay logic, in this order and each at most once; the poll attempt is made
\* exactly when the device is in station mode, the link is up and
\* current_millis - last_poll_time >= poll_interval_ms; the watchdog and the
\* relay logic are never skipped, whatever the link state.
C28_IterationOrder ==
  [][/\ <<pc, pc'>> \in IterationOrder
     /\ pc = "idle" /\ pc' = "idle" => wifi_status' # wifi_status
     /\ GateStep =>
          /\ pc' = "svc" <=>
               /\ wifi_connected_mode
               /\ wifi_status
               /\ Elapsed(clock, last_poll_time) >= poll_interval_ms
          /\ pc' = "svc" => last_poll_time' = clock
          /\ pc' # "svc" => last_poll_time' = last_poll_time
     /\ ~GateStep => last_poll_time' = last_poll_time
     /\ pc = "wd" =>
          ENABLED (loopWatchdog \/ checkDataWatchdog)
     /\ pc = "relay" =>
          ENABLED (updateRelayLogic \/ updateRelayLogicV)]_vars

\* an iteration that did not poll although the interval had passed, because
\* the link is down, has run the watchdog and is about to run the relay logic
C28_Witness ==
  /\ pc = "relay"
  /\ wifi_connected_mode
  /\ ~wifi_status
  /\ Elapsed(clock, last_poll_time) >= poll_interval_ms
  /\ last_poll_time # 0

\* C29: last_poll_time is stamped only at the head of an iteration, with the
\* iteration's current_millis, and not before poll_interval_ms has passed
\* since the previous stamp; the queries of a poll leave it alone and are not
\* repeated in the same iteration; and a due poll is made with the link up
\* whatever the previous attempt's outcome, so a failure never lengthens the
\* interval.
C29_PollCadence ==
  [][/\ last_poll_time' # last_poll_time =>
          /\ GateStep
          /\ pc' = "svc"
          /\ last_poll_time' = clock
          /\ Elapsed(clock, last_poll_time) >= poll_interval_ms
     /\ QueryStep =>
          /\ last_poll_time' = last_poll_time
          /\ pc' # "svc"
     /\ /\ GateStep
        /\ wifi_connected_mode
        /\ wifi_status
        /\ Elapsed(clock, last_poll_time) >= poll_interval_ms
        => /\ pc' = "svc"
           /\ Elapsed(clock', last_poll_time') = 0]_vars

\* a poll attempt starts one iteration after an attempt that failed with
\* HTTP 503, the poll interval having passed in between
C29_Witness ==
  /\ pc = "svc"
  /\ last_poll_time = clock
  /\ clock >= BootMillis + 2 * Quantum
  /\ last_connection_status = "HTTP 503"
  /\ ~icinga_reachable

\* the head of a loop() iteration in which ensureWiFiConnection() calls
\* WiFi.reconnect()
ReconnectStep ==
  /\ GateStep
  /\ IF sketch = "primary" THEN wifiReconnect(clock)
                           ELSE wifiReconnectV(clock)

\* C30: reconnect() is called only when the link has been down for more than
\* 5000 ms: a call is made more than 5000 ms after the connectivity check
\* before it, which bounds the distance of two consecutive calls, and not in
\* an iteration where the link went down less than 5000 ms ago.
C30_ReconnectAfterDowntime ==
  [][ReconnectStep =>
       /\ Elapsed(clock, last_wifi_check_time) > WifiRecheck
       /\ last_wifi_check_time' = clock
       /\ link_down_for > WifiRecheck]_vars

\* C30, amended: reconnect() is called only by a connectivity check that
\* finds the link down in station mode; a check is made only at the head of
\* an iteration, more than 5000 ms after the check before it, and stamps
\* last_wifi_check_time whatever the link state, so two consecutive calls
\* are more than 5000 ms apart.
C30_ReconnectThrottled ==
  [][/\ ReconnectStep =>
          /\ wifi_connected_mode
          /\ ~wifi_status
          /\ Elapsed(clock, last_wifi_check_time) > WifiRecheck
          /\ last_wifi_check_time' = clock
     /\ last_wifi_check_time' # last_wifi_check_time =>
          /\ GateStep
          /\ wifi_connected_mode
          /\ Elapsed(clock, last_wifi_check_time) > WifiRecheck
          /\ last_wifi_check_time' = clock]_vars

\* a connectivity check has just called reconnect() in the iteration that
\* follows the loss of the link; a further iteration at the same instant
\* would not call it again
C30_Witness ==
  /\ pc = "wd"
  /\ wifi_connected_mode
  /\ ~wifi_status
  /\ link_down_for = 0
  /\ last_wifi_check_time = clock
  /\ clock > BootMillis

\* the status texts the watchdog leaves behind
TimeoutTexts == {"Data Timeout", "DATA ERROR (Timeout)"}

\* C31: the watchdog step changes is_network_error, is_alarm_active, the
\* status text or icinga_reachable only when is_network_error was false
\* before it and the data timeout is exceeded; it then raises the fault,
\* clears the alarm and sets the timeout text; with is_network_error already
\* true it changes no variable of the sketch.
C31_WatchdogEdgeTriggered ==
  [][WatchdogStep =>
       /\ UNCHANGED <<config, save_args, toggle, clock, wifi_status, last_poll_time,
                      last_successful_data_time, last_wifi_check_time,
                      last_manual_action_time, manual_override_active,
                      current_state, state_start_time, pin>>
       /\ is_network_error =>
            UNCHANGED <<is_network_error, is_alarm_active,
                        last_connection_status, icinga_reachable>>
       /\ \/ is_network_error' # is_network_error
          \/ is_alarm_active' # is_alarm_active
          \/ last_connection_status' # last_connection_status
          \/ icinga_reachable' # icinga_reachable
          => /\ ~is_network_error
             /\ Elapsed(clock, last_successful_data_time)
                  > watchdog_timeout_ms
       /\ /\ ~is_network_error
          /\ Elapsed(clock, last_successful_data_time) > watchdog_timeout_ms
          => /\ is_network_error'
             /\ ~is_alarm_active'
             /\ last_connection_status' \in TimeoutTexts
             /\ sketch = "primary" => ~icinga_reachable']_vars

\* the watchdog has run with the timeout exceeded and the fault already
\* standing: the status text of the failed query is still in place
C31_Witness ==
  /\ pc = "relay"
  /\ is_network_error
  /\ Elapsed(clock, last_successful_data_time) > watchdog_timeout_ms
  /\ last_connection_status = "HTTP 503"

\* the time that has really passed between a stored millis() value and now
SinceStamp(then) == Uptime(clock) - Uptime(then)

\* C32: across the wrap-around of millis() every elapsed-time test decides
\* as it would on a clock that does not wrap: the expiry of the manual
\* override (more than 60 s), the connectivity recheck (more than 5 s), the
\* poll interval, the watchdog timeout, and the three timeouts of the alarm
\* state machine.
C32_RolloverSafe ==
  [][/\ GateStep /\ manual_override_active =>
          (manual_override_active' <=>
             ~(SinceStamp(last_manual_action_time) > ManualTimeout))
     /\ GateStep =>
          /\ last_wifi_check_time' # last_wifi_check_time <=>
               SinceStamp(last_wifi_check_time) > WifiRecheck
          /\ pc' = "svc" <=> SinceStamp(last_poll_time) >= poll_interval_ms
     /\ WatchdogStep /\ ~is_network_error =>
          (is_network_error' <=>
             SinceStamp(last_successful_data_time) > watchdog_timeout_ms)
     /\ AlarmEvaluation /\ current_state = STATE_INITIAL_ALARM =>
          (current_state' = STATE_COOLDOWN <=>
             SinceStamp(state_start_time) >= init_alarm_duration_ms)
     /\ AlarmEvaluation /\ current_state = STATE_COOLDOWN =>
          (current_state' = STATE_REMINDER_ALARM <=>
             SinceStamp(state_start_time) >= reminder_interval_ms)
     /\ AlarmEvaluation /\ current_state = STATE_REMINDER_ALARM =>
          (current_state' = STATE_COOLDOWN <=>
             SinceStamp(state_start_time) >= reminder_duration_ms)]_vars

\* an initial alarm started before the wrap-around has ended in the first
\* iteration after it, which also polled
C32_Witness ==
  /\ pc = "idle"
  /\ clock < RolloverStart
  /\ current_state = STATE_COOLDOWN
  /\ state_start_time = clock
  /\ Uptime(clock) = RolloverStart + 2 * Quantum
  /\ last_poll_time = clock

\* a POST /save is served
SaveStep == save_args.pending /\ ~save_args'.pending

\* the timings loaded at boot
LoadedTimings ==
  [poll |-> poll_interval_ms, init |-> init_alarm_duration_ms,
   rint |-> reminder_interval_ms, rdur |-> reminder_duration_ms]

\* C33: in the primary sketch handleSave persists poll seconds x 1000, init
\* seconds x 1000, rint minutes x 60000 and rdur seconds x 1000, and the
\* values loaded after the restart, re-submitted as the configuration page
\* displays them, are persisted unchanged.
C33_SaveConversion ==
  [][SaveStep /\ sketch = "primary" =>
       /\ poll_interval_ms' = save_args.poll * 1000
       /\ init_alarm_duration_ms' = save_args.init * 1000
       /\ reminder_interval_ms' = save_args.rint * 60000
       /\ reminder_duration_ms' = save_args.rdur * 1000
       /\ save_args.poll = poll_interval_ms \div 1000
          /\ save_args.init = init_alarm_duration_ms \div 1000
          /\ save_args.rint = reminder_interval_ms \div 60000
          /\ save_args.rdur = reminder_duration_ms \div 1000
          => LoadedTimings' = LoadedTimings]_vars

\* C33, amended: for submitted values that are not negative and whose
\* product fits an unsigned long handleSave persists poll seconds x 1000 (one
\* second for a poll field of 0), init seconds x 1000, rint minutes x 60000
\* and rdur seconds x 1000; and loaded timings that are whole seconds (poll
\* at least one) and whole minutes (rint), re-submitted as the configuration
\* page displays them, are persisted unchanged.
C33_SaveConversionInRange ==
  [][SaveStep /\ sketch = "primary" =>
       /\ 0 <= save_args.poll /\ save_args.poll <= (ULongMod - 1) \div 1000
          => poll_interval_ms' =
               (IF save_args.poll = 0 THEN 1 ELSE save_args.poll) * 1000
       /\ 0 <= save_args.init /\ save_args.init <= (ULongMod - 1) \div 1000
          => init_alarm_duration_ms' = save_args.init * 1000
       /\ 0 <= save_args.rint /\ save_args.rint <= (ULongMod - 1) \div 60000
          => reminder_interval_ms' = save_args.rint * 60000
       /\ 0 <= save_args.rdur /\ save_args.rdur <= (ULongMod - 1) \div 1000
          => reminder_duration_ms' = save_args.rdur * 1000
       /\ /\ poll_interval_ms >= 1000
          /\ poll_interval_ms % 1000 = 0
          /\ init_alarm_duration_ms % 1000 = 0
          /\ reminder_interval_ms % 60000 = 0
          /\ reminder_duration_ms % 1000 = 0
          /\ save_args.poll = poll_interval_ms \div 1000
          /\ save_args.init = init_alarm_duration_ms \div 1000
          /\ save_args.rint = reminder_interval_ms \div 60000
          /\ save_args.rdur = reminder_duration_ms \div 1000
          => LoadedTimings' = LoadedTimings]_vars

\* the primary sketch has restarted with saved timings of 30 s, 0 s, 5 min
\* and 15 s, and the page's values are submitted again
C33_Witness ==
  /\ sketch = "primary"
  /\ poll_interval_ms = 30000
  /\ init_alarm_duration_ms = 0
  /\ reminder_interval_ms = 300000
  /\ reminder_duration_ms = 15000
  /\ save_args.pending
  /\ save_args.poll = 30
  /\ save_args.init = 0
  /\ save_args.rint = 5
  /\ save_args.rdur = 15

\* C34: whatever is submitted in the poll field, the poll interval that
\* handleSave persists, and that is loaded after the restart, is at least
\* 1000 ms.
C34_MinimumPoll == [][SaveStep => poll_interval_ms' >= 1000]_vars

\* a step of a web handler
HandlerStep == toggle' # toggle

\* C35: a web handler executes only inside server.handleClient(), before
\* the rest of the loop() iteration starts, also on the simulator.
C35_SingleContext == [][HandlerStep => pc \in {"idle", "web"}]_vars

\* C36: when setup has left wifi_connected_mode false, no poll attempt is
\* ever made, is_alarm_active stays false, every loop() iteration ends with
\* is_network_error true (and, in the variant, with relay 4 ON), and relay 1
\* is turned ON by nothing but a /toggle request.
C36_ApModeFaulted ==
  [][~wifi_connected_mode =>
       /\ pc' \notin {"svc", "host"}
       /\ last_poll_time' = 0
       /\ ~is_alarm_active'
       /\ current_state' = STATE_IDLE
       /\ RelayStep =>
            /\ is_network_error'
            /\ sketch = "failsafe" => pin'[4] = RELAY_ON
       /\ pin[1] = RELAY_OFF /\ pin'[1] = RELAY_ON => WebStep]_vars

\* the variant in configuration mode has finished an iteration long after
\* the poll interval has passed
C36_Witness ==
  /\ ~wifi_connected_mode
  /\ sketch = "failsafe"
  /\ pc = "idle"
  /\ clock >= BootMillis + 2 * Quantum
  /\ is_network_error
  /\ pin[4] = RELAY_ON
  /\ last_poll_time = 0

\* the last query of a poll attempt in which no query received HTTP 200
FailedPollStep ==
  /\ pc \in {"svc", "host"}
  /\ pc' = "wd"
  /\ ~Http200(http')
  /\ pc = "host" => ~Http200(http)

\* C37: a poll attempt in which no query receives HTTP 200 leaves
\* is_alarm_active and current_state as they were, and is_alarm_active
\* changes only at the end of a poll attempt in which a query received
\* HTTP 200 or when the watchdog raises the fault.
C37_FailedPollKeepsAlarm ==
  [][/\ FailedPollStep =>
          /\ is_alarm_active' = is_alarm_active
          /\ current_state' = current_state
     /\ is_alarm_active' # is_alarm_active =>
          \/ pc \in {"svc", "host"} /\ pc' = "wd" /\ ~FailedPollStep
          \/ /\ WatchdogStep
             /\ ~is_network_error
             /\ is_network_error']_vars

\* C38: an evaluation of updateRelayLogic under a fault, or under a manual
\* override, keeps current_state and state_start_time, and so does every step
\* between two evaluations; the first evaluation after the fault measures
\* the time from that state_start_time, so a machine held in
\* STATE_INITIAL_ALARM for init_alarm_duration_ms or longer goes straight to
\* STATE_COOLDOWN with relay 1 OFF, and the held Cooldown and ReminderAlarm
\* states end in the same way.
C38_FaultFreezesEscalation ==
  [][/\ RelayStep /\ (is_network_error \/ manual_override_active) =>
          UNCHANGED <<current_state, state_start_time>>
     /\ ~RelayStep => UNCHANGED <<current_state, state_start_time>>
     /\ AlarmEvaluation /\ current_state = STATE_INITIAL_ALARM
          /\ Elapsed(clock, state_start_time) >= init_alarm_duration_ms
          => /\ current_state' = STATE_COOLDOWN
             /\ pin'[1] = RELAY_OFF
     /\ AlarmEvaluation /\ current_state = STATE_COOLDOWN
          /\ Elapsed(clock, state_start_time) >= reminder_interval_ms
          => current_state' = STATE_REMINDER_ALARM
     /\ AlarmEvaluation /\ current_state = STATE_REMINDER_ALARM
          /\ Elapsed(clock, state_start_time) >= reminder_duration_ms
          => /\ current_state' = STATE_COOLDOWN
             /\ pin'[1] = RELAY_OFF]_vars

\* the alarm is back after a fault that silenced relay 1 and held the machine
\* in STATE_INITIAL_ALARM for longer than init_alarm_duration_ms; the
\* evaluation is about to run
C38_Witness ==
  /\ pc = "relay"
  /\ current_state = STATE_INITIAL_ALARM
  /\ pin[1] = RELAY_OFF
  /\ last_manual_action_time = 0
  /\ is_alarm_active
  /\ ~is_network_error
  /\ Elapsed(clock, state_start_time) > init_alarm_duration_ms

\* C39: in the primary sketch a service query answered with HTTP 200 stamps
\* last_successful_data_time and clears is_network_error although the host
\* query of the same attempt fails; the failed host query changes neither,
\* and while the service endpoint keeps answering 200 with no results and
\* the host endpoint keeps failing the fault is never raised.
C39_HostFailureUnnoticed ==
  [][/\ pc = "svc" /\ pc' # "svc" =>
          /\ Http200(http')
          /\ last_successful_data_time' = clock'
          /\ pc' = "host"
     /\ pc = "host" /\ pc' # "host" =>
          /\ Http200(http)
          /\ ~Http200(http')
          /\ last_successful_data_time' = last_successful_data_time
          /\ ~icinga_reachable'
          /\ ~is_alarm_active'
     /\ ~is_network_error']_vars

\* the host endpoint has failed in every attempt for longer than the
\* watchdog timeout, and no fault stands
C39_Witness ==
  /\ pc = "idle"
  /\ clock > BootMillis + 2 * Quantum
  /\ clock - BootMillis > watchdog_timeout_ms
  /\ last_connection_status = "HTTP 503"
  /\ ~icinga_reachable
  /\ ~is_network_error

\* handleToggle() returns from serving /toggle?r=k with k a relay
ToggleReturn == toggle.at = "write" /\ toggle'.at = "none"

\* C40: on the simulator, however the HTTP server thread and loop()
\* interleave, manual_override_active is true when handleToggle() returns
\* from /toggle?r=k; the expiry test of loop() does not cancel the override
\* while the handler has set the flag and not yet the timestamp; relay k is
\* left inverted; and updateRelayLogic() writes no relay while the override
\* is active.
C40_ToggleAtomic ==
  [][/\ ToggleReturn =>
          /\ manual_override_active'
          /\ pin'[toggle.r] = 1 - pin[toggle.r]
     /\ GateStep /\ manual_override_active /\ ~manual_override_active' =>
          toggle.at # "stamp"
     /\ pc = "body" /\ pc' = "idle" /\ manual_override_active =>
          pin' = pin]_vars

====
